---- MODULE Spec2Model ----
(***************************************************************************)
(* Collection rename (mongo/db/catalog/rename_collection.cpp).             *)
(*                                                                         *)
(* The catalog maps namespaces to collection UUIDs; every rename entry     *)
(* point is a thread that walks through its lock acquisitions and write    *)
(* units.  A write unit is one atomic step: it either commits all of its   *)
(* catalog changes and observer events, or (write conflict, failed status) *)
(* leaves the catalog as it was.                                           *)
(***************************************************************************)
EXTENDS Integers, Sequences, FiniteSets, TLC

\* ------------------------------------------------------------------ bounds
\* tokens the unique-name generator can expand "%%%%%" to, per pattern and db
MaxTmp == 1
\* UUIDs that UUID::gen() / collection creation can hand out in one behaviour
MaxUUID == 4
\* entry-point calls one thread makes in a row
MaxOps == 2
\* documents in one collection
MaxDocs == 2
\* write conflicts thrown during one entry-point call
MaxRetry == 1
\* largest value of the internalInsertMaxBatchSize knob that is tried
MaxBatch == 2
\* operations of other clients (create, drop, insert) in one behaviour
MaxEnv == 1

\* ------------------------------------------------------------- namespaces
NoUUID == 0
UUIDs == 1..MaxUUID

Ns(d, c) == [db |-> d, coll |-> c, tok |-> 0]
NoNs == [db |-> "", coll |-> "", tok |-> 0]

DBs == {"a", "b"}
UserNs == {Ns("a", "x"), Ns("a", "y"), Ns("b", "x")}
\* "tmp%%%%%.rename" and "tmp%%%%%.renameCollection"; tok stands for the
\* five generated characters
TmpPatterns == {"tmp.rename", "tmp.renameCollection"}
TmpNs == [db : DBs, coll : TmpPatterns, tok : 1..MaxTmp]
\* the profiler's collection of database "a", which is never replicated
ProfileNs == Ns("a", "system.profile")
\* a collection of database "a" whose drop waits to be committed
DropPendingNs == Ns("a", "system.drop.x")
\* the views catalog of database "a"
SystemViewsNs == Ns("a", "system.views")
\* namespaces that can hold a collection
CatNs == UserNs \cup TmpNs \cup {ProfileNs, DropPendingNs, SystemViewsNs}
\* namespaces a caller can name without them ever holding a collection here
OplogNs == Ns("local", "oplog.rs")
ServerConfigNs == Ns("admin", "system.version")
InvalidNs == Ns("a", "")
SpecialNs == {SystemViewsNs, DropPendingNs, OplogNs, ServerConfigNs, InvalidNs}

isSystemDotViews(ns) == ns.coll = "system.views"
isDropPendingNamespace(ns) == ns.coll = "system.drop.x"
isSystemDotProfile(ns) == ns.coll = "system.profile"
isOplog(ns) == ns.db = "local" /\ ns.coll = "oplog.rs"
isServerConfigurationCollection(ns) == ns.db = "admin" /\ ns.coll = "system.version"
isValid(ns) == ns.db # "" /\ ns.coll # ""
\* userAllowedWriteNS: system namespaces other than a short allow-list are
\* refused; of the namespaces here the drop-pending one and the profiler's
\* are refused
userAllowedWriteNS(ns) ==
    IF ns.coll = "" THEN "InvalidNamespace"
    ELSE IF isDropPendingNamespace(ns) \/ isSystemDotProfile(ns) THEN "InvalidNamespace"
    ELSE "OK"

\* ResourceId(RESOURCE_COLLECTION, ns): a hash of the full name, here a fixed
\* total order of the namespaces
CollRank(c) ==
    CASE c = "x" -> 2
      [] c = "y" -> 1
      [] c = "tmp.rename" -> 4
      [] c = "tmp.renameCollection" -> 0
      [] c = "system.views" -> 0
      [] OTHER -> 3
ResourceId(ns) == (IF ns.db = "a" THEN 0 ELSE 1) + 2 * ns.tok + 2 * (MaxTmp + 1) * CollRank(ns.coll)

\* ---------------------------------------------------------------- catalog
Lookup(c, ns) == IF ns \in DOMAIN c THEN c[ns] ELSE NoUUID

\* CollectionCatalog::lookupNSSByUUID
HasUUID(c, u) == u # NoUUID /\ \E ns \in DOMAIN c : c[ns] = u
getNamespaceFromUUID(c, u) ==
    IF HasUUID(c, u) THEN CHOOSE ns \in DOMAIN c : c[ns] = u ELSE NoNs

\* DatabaseHolder::getDb: a database exists once it holds a collection or view
DbExists(c, e, d) ==
    \/ \E ns \in DOMAIN c : ns.db = d /\ c[ns] # NoUUID
    \/ \E v \in e.views : v.db = d

\* Database::renameCollection(source, target, stayTemp)
DbRenameCollection(c, source, target) ==
    IF Lookup(c, target) # NoUUID THEN [status |-> "NamespaceExists", cat |-> c]
    ELSE IF Lookup(c, source) = NoUUID THEN [status |-> "NamespaceNotFound", cat |-> c]
    ELSE IF target \notin DOMAIN c THEN [status |-> "IllegalOperation", cat |-> c]
    ELSE [status |-> "OK", cat |-> [c EXCEPT ![source] = NoUUID, ![target] = c[source]]]

\* Database::dropCollection(ns, opTime)
DbDropCollection(c, ns) ==
    IF Lookup(c, ns) = NoUUID THEN [status |-> "OK", cat |-> c]
    ELSE [status |-> "OK", cat |-> [c EXCEPT ![ns] = NoUUID]]

\* Database::makeUniqueCollectionNamespace(pattern): the names of the pattern
\* in the database that no collection holds
UniqueNames(c, d, pattern) ==
    {ns \in TmpNs : ns.db = d /\ ns.coll = pattern /\ c[ns] = NoUUID}

\* ------------------------------------------------------------ replication
\* ReplicationCoordinator::isOplogDisabledFor
isOplogDisabledFor(e, ns) ==
    \/ ~e.replEnabled
    \/ ~e.replicated
    \/ ns.db \in e.localDbs
    \/ isSystemDotProfile(ns)

\* From a replicated to an unreplicated collection or vice versa.
isReplicatedChanged(e, source, target) ==
    isOplogDisabledFor(e, source) # isOplogDisabledFor(e, target)

isCollectionSharded(e, ns) == ns \in e.sharded

\* OpObserver::preRenameCollection returns the optime of the oplog entry it
\* wrote, null when the rename is not logged
ObserverOpTime(e, source) == IF isOplogDisabledFor(e, source) THEN 0 ELSE 2

\* ------------------------------------------------- results of a write unit
\* status, the catalog the unit leaves, the observer events and the drops it
\* committed
Res(s, c, ev, dr) == [status |-> s, cat |-> c, ev |-> ev, drops |-> dr]
Event(type, source, target, uuid, dropped) ==
    [type |-> type, source |-> source, target |-> target, uuid |-> uuid, dropped |-> dropped]
Drop(u, ns, opTime) == [uuid |-> u, ns |-> ns, opTime |-> opTime]

\* -------------------------------------------------- precondition checker
checkSourceAndTargetNamespaces_TargetMayExist(c, e, source, target, dropTarget, targetExistsAllowed) ==
    IF e.replicated /\ ~e.primary THEN "NotMaster"
    ELSE IF ~e.bypass /\ isCollectionSharded(e, source) THEN "IllegalOperation"
    ELSE IF isReplicatedChanged(e, source, target) THEN "IllegalOperation"
    ELSE IF ~DbExists(c, e, source.db) \/ source.db \in e.dropPendingDbs
        THEN "NamespaceNotFound"
    ELSE IF Lookup(c, source) = NoUUID
        THEN (IF source \in e.views THEN "CommandNotSupportedOnView" ELSE "NamespaceNotFound")
    ELSE IF Lookup(c, target) = NoUUID
        THEN (IF target \in e.views /\ target.db = source.db
              THEN "NamespaceExists" ELSE "OK")
    ELSE IF isCollectionSharded(e, target) THEN "IllegalOperation"
    ELSE "OK"

checkSourceAndTargetNamespaces_DbFirst(c, e, source, target, dropTarget, targetExistsAllowed) ==
    IF ~DbExists(c, e, source.db) \/ source.db \in e.dropPendingDbs
        THEN "NamespaceNotFound"
    ELSE IF e.replicated /\ ~e.primary THEN "NotMaster"
    ELSE IF ~e.bypass /\ isCollectionSharded(e, source) THEN "IllegalOperation"
    ELSE IF isReplicatedChanged(e, source, target) THEN "IllegalOperation"
    ELSE IF Lookup(c, source) = NoUUID
        THEN (IF source \in e.views THEN "CommandNotSupportedOnView" ELSE "NamespaceNotFound")
    ELSE IF Lookup(c, target) = NoUUID
        THEN (IF target \in e.views /\ target.db = source.db
              THEN "NamespaceExists" ELSE "OK")
    ELSE IF isCollectionSharded(e, target) THEN "IllegalOperation"
    ELSE IF ~targetExistsAllowed /\ ~dropTarget THEN "NamespaceExists"
    ELSE "OK"

checkSourceAndTargetNamespaces(c, e, source, target, dropTarget, targetExistsAllowed) ==
    IF e.replicated /\ ~e.primary THEN "NotMaster"
    ELSE IF ~e.bypass /\ isCollectionSharded(e, source) THEN "IllegalOperation"
    ELSE IF isReplicatedChanged(e, source, target) THEN "IllegalOperation"
    ELSE IF ~DbExists(c, e, source.db) \/ source.db \in e.dropPendingDbs
        THEN "NamespaceNotFound"
    ELSE IF Lookup(c, source) = NoUUID
        THEN (IF source \in e.views THEN "CommandNotSupportedOnView" ELSE "NamespaceNotFound")
    ELSE IF Lookup(c, target) = NoUUID
        THEN (IF target \in e.views /\ target.db = source.db
              THEN "NamespaceExists" ELSE "OK")
    ELSE IF isCollectionSharded(e, target) THEN "IllegalOperation"
    ELSE IF ~targetExistsAllowed /\ ~dropTarget THEN "NamespaceExists"
    ELSE "OK"

\* ------------------------------------------------------ same-db renamers
\* tmpName: what makeUniqueCollectionNamespace returned, NoNs when it failed
renameTargetCollectionToTmp_Drop(c, dbLockedX, targetNs, tmpName) ==
    IF ~dbLockedX THEN Res("Abort", c, <<>>, <<>>)
    ELSE IF tmpName = NoNs THEN Res("NamespaceExists", c, <<>>, <<>>)
    ELSE LET r == DbDropCollection(c, targetNs)
         IN  Res(r.status, r.cat, <<>>, <<>>)

renameTargetCollectionToTmp(c, dbLockedX, targetNs, tmpName) ==
    IF ~dbLockedX THEN Res("Abort", c, <<>>, <<>>)
    ELSE IF tmpName = NoNs THEN Res("NamespaceExists", c, <<>>, <<>>)
    ELSE LET r == DbRenameCollection(c, targetNs, tmpName)
         IN  Res(r.status, r.cat, <<>>, <<>>)

renameCollectionDirectly_NoRebind(c, uuid, source, target) ==
    LET r == DbRenameCollection(c, source, target)
    IN  IF r.status # "OK" THEN Res(r.status, c, <<>>, <<>>)
        ELSE Res("OK", c, <<Event("onRename", source, target, uuid, NoUUID)>>, <<>>)

renameCollectionDirectly_NewUUID(c, uuid, source, target) ==
    LET r == DbRenameCollection(c, source, target)
        fresh == (uuid % MaxUUID) + 1
    IN  IF r.status # "OK" THEN Res(r.status, c, <<>>, <<>>)
        ELSE Res("OK", [r.cat EXCEPT ![target] = fresh],
                 <<Event("onRename", source, target, uuid, NoUUID)>>, <<>>)

renameCollectionDirectly_TwoEvents(c, uuid, source, target) ==
    LET r == DbRenameCollection(c, source, target)
    IN  IF r.status # "OK" THEN Res(r.status, c, <<>>, <<>>)
        ELSE Res("OK", r.cat,
                 <<Event("onRename", source, target, uuid, NoUUID),
                   Event("onRename", source, target, uuid, NoUUID)>>, <<>>)

renameCollectionDirectly(c, uuid, source, target) ==
    LET r == DbRenameCollection(c, source, target)
    IN  IF r.status # "OK" THEN Res(r.status, c, <<>>, <<>>)
        ELSE Res("OK", r.cat, <<Event("onRename", source, target, uuid, NoUUID)>>, <<>>)

renameCollectionAndDropTarget_DropKept(c, e, uuid, source, target, targetU, dropTarget, opTimeFromApplyOps) ==
    LET targetNs == getNamespaceFromUUID(c, targetU)
        d == DbDropCollection(c, targetNs)
        r == DbRenameCollection(d.cat, source, target)
    IN  IF ~dropTarget THEN Res("Abort", c, <<>>, <<>>)
        ELSE IF d.status # "OK" THEN Res(d.status, c, <<>>, <<>>)
        ELSE IF r.status # "OK" THEN Res(r.status, d.cat, <<>>, <<>>)
        ELSE Res("OK", r.cat,
                 <<Event("pre", source, target, uuid, targetU),
                   Event("post", source, target, uuid, targetU)>>,
                 <<Drop(targetU, targetNs, opTimeFromApplyOps)>>)

\* the optime the target is dropped with: the one the caller brought, or
\* else the one preRenameCollection returned
RenameOpTime_Observed(fromApplyOps, observed) == observed
RenameOpTime(fromApplyOps, observed) ==
    IF fromApplyOps # 0 THEN fromApplyOps ELSE observed

\* targetU: the UUID of targetColl, which is dropped under its own namespace
renameCollectionAndDropTarget(c, e, uuid, source, target, targetU, dropTarget, opTimeFromApplyOps) ==
    IF ~dropTarget THEN Res("Abort", c, <<>>, <<>>)
    ELSE IF ~isOplogDisabledFor(e, target) /\ (~e.replicated \/ opTimeFromApplyOps # 0)
        THEN Res("Abort", c, <<>>, <<>>)
    ELSE IF opTimeFromApplyOps # 0 /\ ObserverOpTime(e, source) # 0
        THEN Res("Abort", c, <<>>, <<>>)
    ELSE LET renameOpTime == RenameOpTime(opTimeFromApplyOps, ObserverOpTime(e, source))
             targetNs == getNamespaceFromUUID(c, targetU)
             d == DbDropCollection(c, targetNs)
             r == DbRenameCollection(d.cat, source, target)
         IN  IF d.status # "OK" THEN Res(d.status, c, <<>>, <<>>)
             ELSE IF r.status # "OK" THEN Res(r.status, c, <<>>, <<>>)
             ELSE Res("OK", r.cat,
                      <<Event("pre", source, target, uuid, targetU),
                        Event("post", source, target, uuid, targetU)>>,
                      <<Drop(targetU, targetNs, renameOpTime)>>)

\* renameCollectionWithinDB once its locks are held
renameCollectionWithinDB(c, e, source, target, dropTarget) ==
    LET status == checkSourceAndTargetNamespaces(c, e, source, target, dropTarget, FALSE)
    IN  IF status # "OK" THEN Res(status, c, <<>>, <<>>)
        ELSE IF Lookup(c, target) = NoUUID
            THEN renameCollectionDirectly(c, c[source], source, target)
        ELSE renameCollectionAndDropTarget(c, e, c[source], source, target, c[target],
                                           dropTarget, 0)

\* the part of renameCollectionWithinDBForApplyOps after the target was
\* looked up and, where needed, moved aside: c1 is the catalog at that point,
\* targetColl0 the target collection still in the way (NoUUID: none)
ApplyOpsFinish(c, c1, e, source, target, targetColl0, uuidToDrop, opTime, dropTarget) ==
    LET byUUID == getNamespaceFromUUID(c1, uuidToDrop)
        resolve == targetColl0 = NoUUID /\ uuidToDrop # NoUUID
        found == resolve /\ byUUID # NoNs /\ ~isDropPendingNamespace(byUUID)
        targetColl == IF found THEN Lookup(c1, byUUID) ELSE targetColl0
    IN  IF resolve /\ ~dropTarget THEN Res("Abort", c, <<>>, <<>>)
        ELSE IF found /\ byUUID.db # target.db THEN Res("Abort", c, <<>>, <<>>)
        ELSE IF targetColl = NoUUID
            THEN LET r == renameCollectionDirectly(c1, c[source], source, target)
                 IN  IF r.status = "OK" THEN r ELSE Res(r.status, c, <<>>, <<>>)
        ELSE IF c[source] = targetColl THEN Res("OK", c1, <<>>, <<>>)
        ELSE LET r == renameCollectionAndDropTarget(c1, e, c[source], source, target,
                                                    targetColl, dropTarget, opTime)
             IN  IF r.status = "OK" THEN r ELSE Res(r.status, c, <<>>, <<>>)

\* sourceColl->uuid() == targetColl->uuid(), for a target that exists
sameCollection_Never(sourceU, targetU) == FALSE
sameCollection(sourceU, targetU) == targetU # NoUUID /\ sourceU = targetU

\* the collection at the target is renamed to a temporary name: it is
\* neither the source nor the collection the entry says to drop
MoveAside_Never(targetU, uuidToDrop) == FALSE
MoveAside(targetU, uuidToDrop) ==
    targetU # NoUUID /\ (uuidToDrop = NoUUID \/ uuidToDrop # targetU)

\* renameCollectionWithinDBForApplyOps once the database lock is held
renameCollectionWithinDBForApplyOps(c, e, dbLockedX, source, target, uuidToDrop, opTime, dropTarget, tmpName) ==
    LET status == checkSourceAndTargetNamespaces(c, e, source, target, dropTarget, TRUE)
        sourceU == Lookup(c, source)
        targetU == Lookup(c, target)
    IN  IF status # "OK" THEN Res(status, c, <<>>, <<>>)
        ELSE IF sameCollection(sourceU, targetU)
            THEN IF uuidToDrop = NoUUID \/ uuidToDrop = targetU THEN Res("OK", c, <<>>, <<>>)
                 ELSE IF getNamespaceFromUUID(c, uuidToDrop) = NoNs THEN Res("OK", c, <<>>, <<>>)
                 ELSE LET nsDrop == getNamespaceFromUUID(c, uuidToDrop)
                          d == DbDropCollection(c, nsDrop)
                      IN  IF d.status # "OK" THEN Res(d.status, c, <<>>, <<>>)
                          ELSE Res("OK", d.cat, <<>>, <<Drop(uuidToDrop, nsDrop, opTime)>>)
        ELSE IF MoveAside(targetU, uuidToDrop)
            THEN LET m == renameTargetCollectionToTmp(c, dbLockedX, target, tmpName)
                 IN  IF m.status # "OK" THEN Res(m.status, c, <<>>, <<>>)
                     ELSE ApplyOpsFinish(c, m.cat, e, source, target, NoUUID,
                                         uuidToDrop, opTime, dropTarget)
        ELSE ApplyOpsFinish(c, c, e, source, target, targetU, uuidToDrop, opTime, dropTarget)

\* ------------------------------------------------------------------ state
VARIABLES
    cat,     \* CollectionCatalog: namespace -> UUID of the live collection
    docs,    \* UUID -> the collection's records, in record-id order
    idx,     \* UUID -> the collection's ready secondary indexes
    env,     \* replication / sharding / view state of the node
    scen,    \* the calls and the knob values tried in this behaviour
    lk,      \* thread -> the locks it holds, each with the scope that owns it
    st,      \* thread -> its position, its call and the call's locals
    gen,     \* number of UUIDs handed out so far
    envLeft  \* operations other clients may still do

vars == <<cat, docs, idx, env, scen, lk, st, gen, envLeft>>

Procs == {1, 2}
IdxNames == {"i1"}
DocVals == {"d1", "d2"}

EmptyCat == [ns \in CatNs |-> NoUUID]
NoOp == [kind |-> "none", src |-> NoNs, tgt |-> NoNs, dropTarget |-> FALSE,
         uuidToDrop |-> NoUUID, uuidToRename |-> NoUUID, opTime |-> 0,
         origOpts |-> "none", origIdx |-> {}, targetExistsAllowed |-> FALSE]

\* a collection that is not in the catalog has no records and no indexes
Settle(c, f, empty) == [u \in UUIDs |-> IF HasUUID(c, u) THEN f[u] ELSE empty]

\* ------------------------------------------------------------------ locks
DbRes(d) == [db |-> d, coll |-> "", tok |-> 0]
Lock(r, m, scope) == [r |-> r, m |-> m, scope |-> scope]

\* the lock manager's conflict table
Compatible(m1, m2) ==
    CASE m1 = "IS" -> m2 \in {"IS", "IX", "S"}
      [] m1 = "IX" -> m2 \in {"IS", "IX"}
      [] m1 = "S"  -> m2 \in {"IS", "S"}
      [] OTHER     -> FALSE

Blockers(l, p, r, m) == {q \in Procs \ {p} : \E h \in l[q] : h.r = r /\ ~Compatible(h.m, m)}
CanAcquire(l, p, r, m) == Blockers(l, p, r, m) = {}

\* Locker::isDbLockedForMode / isCollectionLockedForMode
Covers(held, m) ==
    CASE held = "X"  -> TRUE
      [] held = "S"  -> m \in {"S", "IS"}
      [] held = "IX" -> m \in {"IX", "IS"}
      [] OTHER       -> m = "IS"
isDbLockedForMode(l, p, d, m) == \E h \in l[p] : h.r = DbRes(d) /\ Covers(h.m, m)
isCollectionLockedForMode(l, p, ns, m) ==
    \/ \E h \in l[p] : h.r = ns /\ Covers(h.m, m)
    \/ \E h \in l[p] : h.r = DbRes(ns.db) /\ h.m \in {"X", "S"} /\ Covers(h.m, m)

\* the destructors (or reset()) of the lock objects of `scopes` run
Release_KeepExclusive(held, scopes) == {h \in held : h.scope \notin scopes \/ h.m = "X"}
Release(held, scopes) == {h \in held : h.scope \notin scopes}

\* the lock objects each function declares, by the scope of their locks:
\* dbWriteLock, sourceLock and targetLock of renameCollectionWithinDB (and
\* autoDb of renameCollectionWithinDBForApplyOps); sourceDbLock,
\* sourceCollLock, targetDBLock, tmpDbLock and tmpCollLock of
\* renameBetweenDBs; the locks of dropCollectionForApplyOps; dbLock of
\* doLocalRenameIfOptionsAndIndexesHaveNotChanged; the temporary
\* AutoGetCollectionForRead of renameCollectionForApplyOps
WithinLocks == {"w"}
BetweenLocks == {"src", "tdb", "tmp"}
DropLocks == {"d"}
IfUnchangedLocks == {"outer"}
ReadLocks == {"r"}

\* renameCollectionWithinDB: system.views is locked last, otherwise the
\* collection with the smaller resource id first
SourceLockedFirst_ByIdOnly(source, target) == ResourceId(source) < ResourceId(target)
SourceLockedFirst(source, target) ==
    /\ ~isSystemDotViews(source)
    /\ (isSystemDotViews(target) \/ ResourceId(source) < ResourceId(target))
FirstCollLock(source, target) == IF SourceLockedFirst(source, target) THEN source ELSE target
SecondCollLock(source, target) == IF SourceLockedFirst(source, target) THEN target ELSE source

\* ----------------------------------------------------------- thread state
\* the write unit of renameCollectionAndDropTarget while it is open: the
\* catalog as the unit sees it, the calls it made so far, the observer events
\* and drops it will publish, and the function's arguments
NoWu == [on |-> FALSE, cat |-> EmptyCat, log |-> <<>>, ev |-> <<>>, drops |-> <<>>,
         source |-> NoNs, target |-> NoNs, uuid |-> NoUUID, targetU |-> NoUUID,
         dropTarget |-> FALSE, fromApplyOps |-> 0, renameOpTime |-> 0]

NewCall(s, op, c) ==
    [pc |-> "idle", op |-> op, src |-> op.src, wsrc |-> NoNs, wtgt |-> NoNs, ret |-> "top",
     dns |-> NoNs, dret |-> "none", fail |-> "", tmp |-> NoNs, tmpU |-> NoUUID,
     srcU |-> NoUUID, srcDocs |-> <<>>, srcIdx |-> {}, guard |-> FALSE, cur |-> 0, begin |-> 0, res |-> "", ev |-> <<>>,
     drops |-> <<>>, pre |-> c, post |-> c, n |-> s.n, retries |-> 0,
     path |-> "none", hist |-> s.hist, wu |-> NoWu,
     replayOf |-> IF s.op = op /\ s.res = "OK" THEN Len(s.ev) ELSE 0]

IdleThread ==
    NewCall([n |-> 0, op |-> NoOp, res |-> "", ev |-> <<>>, hist |-> <<>>], NoOp, EmptyCat)

\* the call returns `status` (an invariant() or LOGV2_FATAL ends the process)
Return(s, status, c) ==
    [s EXCEPT !.pc = IF status = "Abort" THEN "aborted" ELSE "done",
              !.res = status, !.post = c, !.n = @ + 1]

\* options.dropTarget as the entry point computes it
DropTargetOf(op) ==
    CASE op.kind = "rollback" -> FALSE
      [] op.kind = "applyOps" -> op.dropTarget \/ op.uuidToDrop # NoUUID
      [] OTHER -> op.dropTarget

\* ---------------------------------------------------------- entry points
renameCollection_NoViewsCheck(s, c, source, target) ==
    IF isDropPendingNamespace(source) THEN Return(s, "NamespaceNotFound", c)
    ELSE IF source.db = target.db
        THEN [s EXCEPT !.pc = "w_db", !.src = source, !.wsrc = source, !.wtgt = target,
                       !.ret = "top", !.path = "within"]
    ELSE [s EXCEPT !.pc = "b_sdb", !.src = source, !.path = "between"]

\* renameCollection(source, target, options) up to its dispatch
renameCollection(s, c, source, target) ==
    IF isDropPendingNamespace(source) THEN Return(s, "NamespaceNotFound", c)
    ELSE IF isSystemDotViews(source) \/ isSystemDotViews(target)
        THEN Return(s, "IllegalOperation", c)
    ELSE IF source.db = target.db
        THEN [s EXCEPT !.pc = "w_db", !.src = source, !.wsrc = source, !.wtgt = target,
                       !.ret = "top", !.path = "within"]
    ELSE [s EXCEPT !.pc = "b_sdb", !.src = source, !.path = "between"]

validateAndRunRenameCollection_NoOplogParity(s, c, e, source, target) ==
    IF ~isValid(source) \/ ~isValid(target) THEN Return(s, "InvalidNamespace", c)
    ELSE IF e.replEnabled /\ (isOplog(source) \/ isOplog(target))
        THEN Return(s, "IllegalOperation", c)
    ELSE IF userAllowedWriteNS(source) # "OK" \/ userAllowedWriteNS(target) # "OK"
        THEN Return(s, "IllegalOperation", c)
    ELSE IF isServerConfigurationCollection(source) THEN Return(s, "IllegalOperation", c)
    ELSE renameCollection(s, c, source, target)

\* validateAndRunRenameCollection up to its call of renameCollection
validateAndRunRenameCollection(s, c, e, source, target) ==
    IF ~isValid(source) \/ ~isValid(target) THEN Return(s, "InvalidNamespace", c)
    ELSE IF e.replEnabled /\ (isOplog(source) \/ isOplog(target))
        THEN Return(s, "IllegalOperation", c)
    ELSE IF isOplog(source) # isOplog(target) THEN Return(s, "IllegalOperation", c)
    ELSE IF userAllowedWriteNS(source) # "OK" \/ userAllowedWriteNS(target) # "OK"
        THEN Return(s, "IllegalOperation", c)
    ELSE IF isServerConfigurationCollection(source) THEN Return(s, "IllegalOperation", c)
    ELSE renameCollection(s, c, source, target)

renameCollectionForApplyOps_ByNameOnly(s, c, e) ==
    LET op == s.op
    IN  IF op.opTime # 0 /\ e.replicated THEN Return(s, "BadValue", c)
        ELSE IF userAllowedWriteNS(op.tgt) # "OK" THEN Return(s, userAllowedWriteNS(op.tgt), c)
        ELSE IF ~e.replEnabled /\ isOplog(op.tgt) THEN Return(s, "IllegalOperation", c)
        ELSE [s EXCEPT !.pc = "r_db", !.src = op.src]

renameCollectionForApplyOps_AnyOpTime(s, c, e) ==
    LET op == s.op
        byUUID == getNamespaceFromUUID(c, op.uuidToRename)
        sourceNss == IF op.uuidToRename # NoUUID /\ byUUID # NoNs THEN byUUID ELSE op.src
    IN  IF userAllowedWriteNS(op.tgt) # "OK" THEN Return(s, userAllowedWriteNS(op.tgt), c)
        ELSE IF ~e.replEnabled /\ isOplog(op.tgt) THEN Return(s, "IllegalOperation", c)
        ELSE [s EXCEPT !.pc = "r_db", !.src = sourceNss]

\* renameCollectionForApplyOps up to AutoGetCollectionForRead
renameCollectionForApplyOps(s, c, e) ==
    LET op == s.op
        byUUID == getNamespaceFromUUID(c, op.uuidToRename)
        sourceNss == IF op.uuidToRename # NoUUID /\ byUUID # NoNs THEN byUUID ELSE op.src
    IN  IF op.opTime # 0 /\ e.replicated THEN Return(s, "BadValue", c)
        ELSE IF userAllowedWriteNS(op.tgt) # "OK" THEN Return(s, userAllowedWriteNS(op.tgt), c)
        ELSE IF ~e.replEnabled /\ isOplog(op.tgt) THEN Return(s, "IllegalOperation", c)
        ELSE [s EXCEPT !.pc = "r_db", !.src = sourceNss]

renameCollectionForRollback(s, c) ==
    LET source == getNamespaceFromUUID(c, s.op.uuidToRename)
    IN  IF source = NoNs THEN Return(s, "Abort", c)
        ELSE IF source.db # s.op.tgt.db THEN Return(s, "Abort", c)
        ELSE [s EXCEPT !.pc = "w_db", !.src = source, !.wsrc = source, !.wtgt = s.op.tgt,
                       !.ret = "top", !.path = "within"]

Enter(s, c, e) ==
    CASE s.op.kind = "rename"      -> renameCollection(s, c, s.op.src, s.op.tgt)
      [] s.op.kind = "validate"    -> validateAndRunRenameCollection(s, c, e, s.op.src, s.op.tgt)
      [] s.op.kind = "ifUnchanged" -> [s EXCEPT !.pc = "u_db"]
      [] s.op.kind = "applyOps"    -> renameCollectionForApplyOps(s, c, e)
      [] s.op.kind = "check"       -> [s EXCEPT !.pc = "c_run"]
      [] s.op.kind = "viewOp"      -> [s EXCEPT !.pc = "v_db"]
      [] s.op.kind = "swap"        ->
             IF Lookup(c, s.op.src) = NoUUID \/ Lookup(c, s.op.tgt) = NoUUID
             THEN Return(s, "NamespaceNotFound", c)
             ELSE [s EXCEPT !.pc = "s_call"]
      [] OTHER                     -> renameCollectionForRollback(s, c)

\* the thread's record of its earlier calls, kept where the scenario asks for it
Past(s) ==
    IF scen.track /\ s.n > 0
    THEN [s EXCEPT !.hist = Append(@, [op |-> s.op, res |-> s.res, pre |-> s.pre,
                                       post |-> s.post])]
    ELSE s

\* a thread calls an entry point
Begin(p) ==
    /\ p \in scen.procs
    /\ st[p].pc \in {"idle", "done"}
    /\ st[p].n < scen.calls
    /\ \E op \in scen.ops :
          st' = [st EXCEPT ![p] = Enter(NewCall(Past(st[p]), op, cat), cat, env)]
    /\ UNCHANGED <<cat, docs, idx, env, scen, lk, gen, envLeft>>

\* ------------------------------------------------------ lock acquisition
\* renameBetweenDBs: sourceCollLock(source, MODE_S), targetDBLock(target.db(), MODE_X)
SourceCollMode_Intent == "IS"
SourceCollMode == "S"
TargetDbMode_IntentOnly == "IX"
TargetDbMode == "X"
\* doLocalRenameIfOptionsAndIndexesHaveNotChanged: AutoGetDb dbLock(targetNs.db(), MODE_X)
IfUnchangedDbMode_IntentOnly == "IX"
IfUnchangedDbMode == "X"
\* renameCollectionWithinDBForApplyOps: Lock::DBLock dbWriteLock(source.db(), MODE_X)
ApplyOpsDbMode_IntentOnly == "IX"
ApplyOpsDbMode == "X"

\* the lock the thread asks for at its position
Want(s, c) ==
    CASE s.pc = "w_db"      -> Lock(DbRes(s.wsrc.db), "IX", "w")
      [] s.pc = "w_c1"      -> Lock(FirstCollLock(s.wsrc, s.wtgt), "X", "w")
      [] s.pc = "w_c2"      -> Lock(SecondCollLock(s.wsrc, s.wtgt), "X", "w")
      [] s.pc = "a_db"      -> Lock(DbRes(s.src.db), ApplyOpsDbMode, "w")
      [] s.pc = "b_sdb"     -> Lock(DbRes(s.src.db), "IX", "src")
      [] s.pc = "b_scoll"   -> Lock(s.src, SourceCollMode, "src")
      [] s.pc = "b_tdb"     -> Lock(DbRes(s.op.tgt.db), TargetDbMode, "tdb")
      [] s.pc = "b_tmpdb"   -> Lock(DbRes(s.tmp.db), "IX", "tmp")
      [] s.pc = "b_tmpcoll" -> Lock(getNamespaceFromUUID(c, s.tmpU), "IX", "tmp")
      [] s.pc = "d_db"      -> Lock(DbRes(s.dns.db), "IX", "d")
      [] s.pc = "d_coll"    -> Lock(s.dns, "X", "d")
      [] s.pc = "u_db"      -> Lock(DbRes(s.op.tgt.db), IfUnchangedDbMode, "outer")
      [] s.pc = "r_db"      -> Lock(DbRes(s.src.db), "IS", "r")
      [] s.pc = "v_db"      -> Lock(DbRes(s.src.db), "IX", "v")
      [] s.pc = "v_coll"    -> Lock(s.src, "IX", "v")
      [] s.pc = "v_views"   -> Lock(SystemViewsNs, "X", "v")
      [] OTHER              -> Lock(s.src, "IS", "r")

LockPcs == {"w_db", "w_c1", "w_c2", "a_db", "b_sdb", "b_scoll", "b_tdb", "b_tmpdb",
            "b_tmpcoll", "d_db", "d_coll", "u_db", "r_db", "r_coll",
            "v_db", "v_coll", "v_views"}

AfterLock(pc) ==
    CASE pc = "w_db" -> "w_c1"      [] pc = "w_c1" -> "w_c2"    [] pc = "w_c2" -> "w_run"
      [] pc = "a_db" -> "a_run"     [] pc = "b_sdb" -> "b_scoll" [] pc = "b_scoll" -> "b_tdb"
      [] pc = "b_tdb" -> "b_setup"  [] pc = "b_tmpdb" -> "b_tmpcoll"
      [] pc = "b_tmpcoll" -> "b_cursor"
      [] pc = "d_db" -> "d_coll"    [] pc = "d_coll" -> "d_run" [] pc = "u_db" -> "u_check"
      [] pc = "v_db" -> "v_coll"    [] pc = "v_coll" -> "v_views" [] pc = "v_views" -> "v_run"
      [] pc = "r_db" -> "r_coll"    [] OTHER -> "r_run"

\* renameBetweenDBs takes the source locks unless the source is already
\* locked in MODE_S, and the target database lock unless it is held in MODE_X
LockNotNeeded(l, p, s, c) ==
    \/ s.pc \in {"b_sdb", "b_scoll"} /\ isCollectionLockedForMode(l, p, s.src, "S")
       /\ \A h \in l[p] : h.scope # "src"
    \/ s.pc = "b_tdb" /\ isDbLockedForMode(l, p, s.op.tgt.db, "X")
    \/ s.pc = "b_tmpcoll" /\ getNamespaceFromUUID(c, s.tmpU) = NoNs

Waiting(p) == st[p].pc \in LockPcs /\ ~LockNotNeeded(lk, p, st[p], cat)
WaitsFor(p) == IF Waiting(p)
               THEN Blockers(lk, p, Want(st[p], cat).r, Want(st[p], cat).m) ELSE {}

\* a Lock::DBLock / Lock::CollectionLock constructor returns
Acquire(p) ==
    /\ st[p].pc \in LockPcs
    /\ IF LockNotNeeded(lk, p, st[p], cat) THEN lk' = lk
       ELSE /\ WaitsFor(p) = {}
            /\ lk' = [lk EXCEPT ![p] = @ \cup {Want(st[p], cat)}]
    /\ st' = [st EXCEPT ![p].pc = AfterLock(@)]
    /\ UNCHANGED <<cat, docs, idx, env, scen, gen, envLeft>>

\* -------------------------------------------------------- running a call
\* what a write unit's result does to the thread and the catalog
Commit(s, r) == [s EXCEPT !.ev = @ \o r.ev, !.drops = @ \o r.drops]

FailBetween_DropSource(s, status, c) ==
    IF status = "Abort" THEN Return(s, status, c)
    ELSE IF s.guard THEN [s EXCEPT !.pc = "d_db", !.dns = s.src, !.dret = "cleanup",
                                   !.fail = status]
    ELSE Return(s, status, c)

\* the failure leaves renameBetweenDBs: tmpCollectionDropper runs first
\* (dropCollectionForApplyOps on the staging name), then the locks go
FailBetween(s, status, c) ==
    IF status = "Abort" THEN Return(s, status, c)
    ELSE IF s.guard THEN [s EXCEPT !.pc = "d_db", !.dns = s.tmp, !.dret = "cleanup",
                                   !.fail = status]
    ELSE Return(s, status, c)

\* writeConflictRetry: the write unit threw WriteConflictException, nothing
\* of it is kept, and the body runs again
WriteConflict(p) ==
    /\ st[p].pc \in {"w_run", "a_run"}
    /\ st[p].retries < MaxRetry
    /\ st' = [st EXCEPT ![p].retries = @ + 1]
    /\ UNCHANGED <<cat, docs, idx, env, scen, lk, gen, envLeft>>

\* checkSourceAndTargetNamespaces called on its own
CheckRun(p) ==
    /\ st[p].pc = "c_run"
    /\ LET s == st[p]
           status == checkSourceAndTargetNamespaces(cat, env, s.op.src, s.op.tgt,
                                                    s.op.dropTarget, s.op.targetExistsAllowed)
       IN  st' = [st EXCEPT ![p] = Return(s, status, cat)]
    /\ UNCHANGED <<cat, docs, idx, env, scen, lk, gen, envLeft>>

\* a view operation (create, modify or drop of a view on s.src) of another
\* session: it has locked the view's namespace and then system.views, and
\* returns
ViewLocks == {"v"}
ViewRun(p) ==
    /\ st[p].pc = "v_run"
    /\ st' = [st EXCEPT ![p] = Return(st[p], "OK", cat)]
    /\ lk' = [lk EXCEPT ![p] = Release(@, ViewLocks)]
    /\ UNCHANGED <<cat, docs, idx, env, scen, gen, envLeft>>

\* renameCollectionWithinDB from the precondition check to its return
WithinRun(p) ==
    /\ st[p].pc = "w_run"
    /\ LET s == st[p]
           r == renameCollectionWithinDB(cat, env, s.wsrc, s.wtgt, DropTargetOf(s.op))
           s1 == Commit(s, r)
       IN  /\ cat' = r.cat
           /\ docs' = Settle(r.cat, docs, <<>>)
           /\ idx' = Settle(r.cat, idx, {})
           /\ IF s.ret = "top"
              THEN /\ st' = [st EXCEPT ![p] = Return(s1, r.status, r.cat)]
                   /\ lk' = [lk EXCEPT ![p] = Release(@, WithinLocks \cup IfUnchangedLocks)]
              ELSE IF r.status = "OK"
              THEN /\ st' = [st EXCEPT ![p] = [s1 EXCEPT !.pc = "d_db", !.dns = s.src,
                                                         !.dret = "final", !.guard = FALSE]]
                   /\ lk' = [lk EXCEPT ![p] = Release(@, WithinLocks)]
              ELSE /\ st' = [st EXCEPT ![p] = FailBetween(s1, r.status, r.cat)]
                   /\ lk' = [lk EXCEPT ![p] =
                                 IF r.status = "Abort" THEN {}
                                 ELSE IF ~s.guard
                                 THEN Release(@, WithinLocks \cup BetweenLocks
                                                   \cup IfUnchangedLocks)
                                 ELSE Release(@, WithinLocks)]
    /\ UNCHANGED <<env, scen, gen, envLeft>>

\* ------------------------------- renameCollectionAndDropTarget, step by step
SwapPcs == {"s_pre", "s_drop", "s_rebind", "s_post", "s_commit"}

SwapNext_RebindFirst(pc) ==
    CASE pc = "s_pre" -> "s_rebind" [] pc = "s_rebind" -> "s_drop"
      [] pc = "s_drop" -> "s_post"  [] pc = "s_post" -> "s_commit"
      [] OTHER -> "done"

\* the order of the calls inside the write unit
SwapNext(pc) ==
    CASE pc = "s_pre" -> "s_drop"     [] pc = "s_drop" -> "s_rebind"
      [] pc = "s_rebind" -> "s_post"  [] pc = "s_post" -> "s_commit"
      [] OTHER -> "done"

\* the call reaches renameCollectionAndDropTarget: from renameCollectionWithinDB
\* when the target exists, from renameCollectionWithinDBForApplyOps when the
\* target is the collection to drop
SwapCase(p) ==
    LET s == st[p]
    IN  \/ /\ s.pc = "w_run"
           /\ checkSourceAndTargetNamespaces(cat, env, s.wsrc, s.wtgt,
                                             DropTargetOf(s.op), FALSE) = "OK"
           /\ Lookup(cat, s.wtgt) # NoUUID
        \/ /\ s.pc = "a_run"
           /\ checkSourceAndTargetNamespaces(cat, env, s.src, s.op.tgt,
                                             DropTargetOf(s.op), TRUE) = "OK"
           /\ Lookup(cat, s.op.tgt) # NoUUID
           /\ ~sameCollection(Lookup(cat, s.src), Lookup(cat, s.op.tgt))
           /\ s.op.uuidToDrop = Lookup(cat, s.op.tgt)
        \/ s.pc = "s_call"

\* writeConflictRetry enters its body and the WriteUnitOfWork is opened
SwapEnter(p) ==
    /\ SwapCase(p)
    /\ LET s == st[p]
           source == IF s.pc = "w_run" THEN s.wsrc ELSE s.src
           target == IF s.pc = "w_run" THEN s.wtgt ELSE s.op.tgt
           dropTarget == IF s.pc = "s_call" THEN s.op.dropTarget ELSE DropTargetOf(s.op)
       IN  st' = [st EXCEPT ![p] =
                     [s EXCEPT !.pc = "s_pre",
                               !.wu = [NoWu EXCEPT !.on = TRUE, !.cat = cat,
                                                   !.source = source, !.target = target,
                                                   !.uuid = cat[source],
                                                   !.targetU = cat[target],
                                                   !.dropTarget = dropTarget,
                                                   !.fromApplyOps =
                                                       IF s.pc = "w_run" THEN 0
                                                       ELSE s.op.opTime]]]
    /\ UNCHANGED <<cat, docs, idx, env, scen, lk, gen, envLeft>>

\* the unit is left without a commit: nothing of it is kept
SwapFail(p, status) ==
    /\ st' = [st EXCEPT ![p] = Return(st[p], status, cat)]
    /\ lk' = [lk EXCEPT ![p] = IF status = "Abort" THEN {}
                               ELSE Release(@, WithinLocks \cup IfUnchangedLocks)]
    /\ UNCHANGED <<cat, docs, idx>>

\* one call of the write unit's body
SwapStep(p) ==
    /\ st[p].pc \in SwapPcs
    /\ LET s == st[p]
           w == s.wu
           targetNs == getNamespaceFromUUID(w.cat, w.targetU)
           go(w1) == /\ st' = [st EXCEPT ![p] = [s EXCEPT !.pc = SwapNext(s.pc), !.wu = w1]]
                     /\ UNCHANGED <<cat, docs, idx, lk>>
       IN  CASE s.pc = "s_pre" ->
                  IF ~w.dropTarget THEN SwapFail(p, "Abort")
                  ELSE IF ~isOplogDisabledFor(env, w.target)
                          /\ (~env.replicated \/ w.fromApplyOps # 0)
                      THEN SwapFail(p, "Abort")
                  ELSE IF w.fromApplyOps # 0 /\ ObserverOpTime(env, w.source) # 0
                      THEN /\ st' = [st EXCEPT ![p] =
                                         Return([s EXCEPT !.wu.log = Append(@, "pre")],
                                                "Abort", cat)]
                           /\ lk' = [lk EXCEPT ![p] = {}]
                           /\ UNCHANGED <<cat, docs, idx>>
                  ELSE go([w EXCEPT !.log = Append(@, "pre"),
                                    !.ev = Append(@, Event("pre", w.source, w.target,
                                                           w.uuid, w.targetU)),
                                    !.renameOpTime =
                                        RenameOpTime(w.fromApplyOps,
                                                     ObserverOpTime(env, w.source))])
             [] s.pc = "s_drop" ->
                  \E ok \in IF scen.faults THEN BOOLEAN ELSE {TRUE} :
                    LET d == DbDropCollection(w.cat, targetNs)
                    IN  IF ~ok THEN SwapFail(p, "OperationFailed")
                        ELSE IF d.status # "OK" THEN SwapFail(p, d.status)
                        ELSE go([w EXCEPT !.log = Append(@, "drop"), !.cat = d.cat,
                                          !.drops = Append(@, Drop(w.targetU, targetNs,
                                                                   w.renameOpTime))])
             [] s.pc = "s_rebind" ->
                  \E ok \in IF scen.faults THEN BOOLEAN ELSE {TRUE} :
                    LET r == DbRenameCollection(w.cat, w.source, w.target)
                    IN  IF ~ok THEN SwapFail(p, "OperationFailed")
                        ELSE IF r.status # "OK" THEN SwapFail(p, r.status)
                        ELSE go([w EXCEPT !.log = Append(@, "rebind"), !.cat = r.cat])
             [] s.pc = "s_post" ->
                  go([w EXCEPT !.log = Append(@, "post"),
                               !.ev = Append(@, Event("post", w.source, w.target,
                                                      w.uuid, w.targetU))])
             [] OTHER ->
                  /\ cat' = w.cat
                  /\ docs' = Settle(w.cat, docs, <<>>)
                  /\ idx' = Settle(w.cat, idx, {})
                  /\ st' = [st EXCEPT ![p] =
                                Return(Commit([s EXCEPT !.wu.log = Append(@, "commit")], w),
                                       "OK", w.cat)]
                  /\ lk' = [lk EXCEPT ![p] = Release(@, WithinLocks \cup IfUnchangedLocks)]
    /\ UNCHANGED <<env, scen, gen, envLeft>>

\* a WriteConflictException inside the unit: the unit is rolled back and
\* writeConflictRetry runs the body again
SwapConflict(p) ==
    /\ st[p].pc \in SwapPcs
    /\ st[p].retries < MaxRetry
    /\ st' = [st EXCEPT ![p] = [@ EXCEPT !.pc = "s_pre", !.retries = @ + 1,
                                         !.wu = [@ EXCEPT !.cat = cat, !.log = <<>>,
                                                          !.ev = <<>>, !.drops = <<>>,
                                                          !.renameOpTime = 0]]]
    /\ UNCHANGED <<cat, docs, idx, env, scen, lk, gen, envLeft>>

DowngradeTarget_TargetFirst(c, op) ==
    IF DropTargetOf(op) /\ Lookup(c, op.tgt) # NoUUID THEN op.tgt
    ELSE IF op.uuidToDrop # NoUUID THEN getNamespaceFromUUID(c, op.uuidToDrop)
    ELSE NoNs

\* dropTargetNss: the namespace a rename without a source is downgraded to
\* drop, NoNs when there is none
DowngradeTarget(c, op) ==
    IF op.uuidToDrop # NoUUID THEN getNamespaceFromUUID(c, op.uuidToDrop)
    ELSE IF DropTargetOf(op) THEN op.tgt
    ELSE NoNs

\* renameCollectionForApplyOps from AutoGetCollectionForRead to its dispatch
ApplyRead(p) ==
    /\ st[p].pc = "r_run"
    /\ LET s == st[p]
           op == s.op
           sourceColl == Lookup(cat, s.src)
           dropTargetNss == DowngradeTarget(cat, op)
       IN  IF isDropPendingNamespace(s.src) \/ sourceColl = NoUUID
           THEN IF dropTargetNss # NoNs
                THEN /\ st' = [st EXCEPT ![p] = [s EXCEPT !.pc = "d_db", !.dns = dropTargetNss,
                                                          !.dret = "applyDrop", !.path = "drop"]]
                     /\ lk' = [lk EXCEPT ![p] = Release(@, ReadLocks)]
                ELSE /\ st' = [st EXCEPT ![p] = Return(s, "NamespaceNotFound", cat)]
                     /\ lk' = [lk EXCEPT ![p] = Release(@, ReadLocks)]
           ELSE /\ st' = [st EXCEPT ![p] =
                              IF s.src.db = op.tgt.db
                              THEN [s EXCEPT !.pc = "a_db", !.path = "applyWithin"]
                              ELSE [s EXCEPT !.pc = "b_sdb", !.path = "between"]]
                /\ lk' = [lk EXCEPT ![p] = Release(@, ReadLocks)]
    /\ UNCHANGED <<cat, docs, idx, env, scen, gen, envLeft>>

\* renameCollectionWithinDBForApplyOps from the precondition check to its return
ApplyRun(p) ==
    /\ st[p].pc = "a_run"
    /\ LET s == st[p]
           names == UniqueNames(cat, s.src.db, "tmp.rename")
       IN  \E tmpName \in IF names = {} THEN {NoNs} ELSE names :
             LET r == renameCollectionWithinDBForApplyOps(
                          cat, env, isDbLockedForMode(lk, p, s.src.db, "X"), s.src, s.op.tgt,
                          s.op.uuidToDrop, s.op.opTime, DropTargetOf(s.op), tmpName)
             IN  /\ cat' = r.cat
                 /\ docs' = Settle(r.cat, docs, <<>>)
                 /\ idx' = Settle(r.cat, idx, {})
                 /\ st' = [st EXCEPT ![p] = Return(Commit(s, r), r.status, r.cat)]
                 /\ lk' = [lk EXCEPT ![p] = IF r.status = "Abort" THEN {}
                                            ELSE Release(@, WithinLocks)]
    /\ UNCHANGED <<env, scen, gen, envLeft>>

\* dropCollectionForApplyOps(ns, opTime, kAllowSystemCollectionDrops) once
\* its locks are held
dropCollectionForApplyOps(c, ns, opTime) ==
    IF Lookup(c, ns) = NoUUID THEN Res("NamespaceNotFound", c, <<>>, <<>>)
    ELSE Res("OK", DbDropCollection(c, ns).cat, <<>>, <<Drop(c[ns], ns, opTime)>>)

\* the three calls of dropCollectionForApplyOps: the downgraded apply-ops
\* rename, the staging cleanup, and the drop of the source that ends a
\* cross-database rename
DropRun(p) ==
    /\ st[p].pc = "d_run"
    /\ LET s == st[p]
           r == dropCollectionForApplyOps(cat, s.dns,
                                          IF s.dret = "applyDrop" THEN s.op.opTime ELSE 0)
           s1 == Commit(s, r)
       IN  /\ cat' = r.cat
           /\ docs' = Settle(r.cat, docs, <<>>)
           /\ idx' = Settle(r.cat, idx, {})
           /\ st' = [st EXCEPT ![p] = Return(s1, IF s.dret = "cleanup" THEN s.fail ELSE r.status,
                                             r.cat)]
           /\ lk' = [lk EXCEPT ![p] =
                         IF s.dret = "applyDrop" THEN Release(@, DropLocks)
                         ELSE Release(@, DropLocks \cup BetweenLocks \cup IfUnchangedLocks)]
    /\ UNCHANGED <<env, scen, gen, envLeft>>

\* ------------------------------------------------- renameIfUnchanged
\* the target's durable options without the uuid field; {} when it is missing
OptionsWithoutUUID(c, ns) == IF Lookup(c, ns) = NoUUID THEN "none" ELSE "default"
\* listIndexesEmptyListIfMissing
listIndexes(c, ix, ns) == IF Lookup(c, ns) = NoUUID THEN {} ELSE ix[c[ns]]

\* doLocalRenameIfOptionsAndIndexesHaveNotChanged once the database lock is held
IfUnchangedRun(p) ==
    /\ st[p].pc = "u_check"
    /\ LET s == st[p]
           op == s.op
       IN  IF op.origOpts # OptionsWithoutUUID(cat, op.tgt) \/ op.origIdx # listIndexes(cat, idx, op.tgt)
           THEN /\ st' = [st EXCEPT ![p] = Return(s, "CommandFailed", cat)]
                /\ lk' = [lk EXCEPT ![p] = Release(@, IfUnchangedLocks)]
           ELSE LET s1 == validateAndRunRenameCollection(s, cat, env, op.src, op.tgt)
                IN  /\ st' = [st EXCEPT ![p] = s1]
                    /\ lk' = [lk EXCEPT ![p] = IF s1.pc \in {"done", "aborted"}
                                               THEN Release(@, IfUnchangedLocks) ELSE @]
    /\ UNCHANGED <<cat, docs, idx, env, scen, gen, envLeft>>

\* ------------------------------------------------- cross-database copier
\* collectionOptions.uuid = UUID::gen(): the staging collection's UUID
StagingUUID_KeepSource(sourceU, fresh) == sourceU
StagingUUID(sourceU, fresh) == fresh

\* renameBetweenDBs from its checks to the creation of the staging collection
\* and the registration of tmpCollectionDropper
BetweenSetup(p) ==
    /\ st[p].pc = "b_setup"
    /\ LET s == st[p]
           source == s.src
           target == s.op.tgt
           sourceU == Lookup(cat, source)
           targetDB == DbExists(cat, env, target.db)
           targetU == IF targetDB THEN Lookup(cat, target) ELSE NoUUID
           names == UniqueNames(cat, target.db, "tmp.renameCollection")
           status ==
               IF ~DbExists(cat, env, source.db) THEN "NamespaceNotFound"
               ELSE IF sourceU = NoUUID
                   THEN (IF source \in env.views THEN "CommandNotSupportedOnView"
                         ELSE "NamespaceNotFound")
               ELSE IF ~env.bypass /\ isCollectionSharded(env, source) THEN "IllegalOperation"
               ELSE IF isReplicatedChanged(env, source, target) THEN "IllegalOperation"
               ELSE IF targetU # NoUUID /\ sourceU = targetU
                   THEN (IF source = target THEN "OK" ELSE "Abort")
               ELSE IF targetU # NoUUID /\ isCollectionSharded(env, target) THEN "IllegalOperation"
               ELSE IF targetU # NoUUID /\ ~DropTargetOf(s.op) THEN "NamespaceExists"
               ELSE IF targetU = NoUUID /\ targetDB /\ target \in env.views THEN "NamespaceExists"
               ELSE IF ~isDbLockedForMode(lk, p, target.db, "X") THEN "Abort"
               ELSE IF names = {} THEN "NamespaceExists"
               ELSE "create"
       IN  IF status # "create"
           THEN /\ st' = [st EXCEPT ![p] = Return(s, status, cat)]
                /\ lk' = [lk EXCEPT ![p] = IF status = "Abort" THEN {}
                                           ELSE Release(@, BetweenLocks \cup IfUnchangedLocks)]
                /\ UNCHANGED <<cat, gen>>
           ELSE \E tmpName \in names :
                  LET u == StagingUUID(sourceU, gen + 1)
                  IN  /\ gen < MaxUUID
                      /\ cat' = [cat EXCEPT ![tmpName] = u]
                      /\ gen' = gen + 1
                      /\ st' = [st EXCEPT ![p] = [s EXCEPT !.pc = "b_index", !.tmp = tmpName,
                                                           !.tmpU = u, !.srcU = sourceU,
                                                           !.srcIdx = idx[sourceU],
                                                           !.guard = TRUE]]
                      /\ lk' = lk
    /\ UNCHANGED <<docs, idx, env, scen, envLeft>>

\* the indexes copied to the staging collection: every ready index of the
\* source but the _id index, which createCollection makes
indexesToCopy_None(ix, sourceU) == {}
indexesToCopy(ix, sourceU) == ix[sourceU]

BetweenIndex_AfterCopy(p) ==
    /\ \/ /\ st[p].pc = "b_index"
          /\ idx' = idx
          /\ st' = [st EXCEPT ![p].pc = "b_tmpdb"]
          /\ lk' = [lk EXCEPT ![p] = Release(@, {"tdb"})]
       \/ /\ st[p].pc = "b_copy" /\ st[p].cur = 0
          /\ idx[st[p].tmpU] # indexesToCopy(idx, st[p].srcU)
          /\ idx' = [idx EXCEPT ![st[p].tmpU] = indexesToCopy(idx, st[p].srcU)]
          /\ UNCHANGED <<st, lk>>
    /\ UNCHANGED <<cat, docs, env, scen, gen, envLeft>>

\* renameBetweenDBs from the index copy to the release of the exclusive
\* target database lock; createIndexesOnEmptyCollection may throw
BetweenIndex(p) ==
    /\ st[p].pc = "b_index"
    /\ LET s == st[p]
           toCopy == indexesToCopy(idx, s.srcU)
       IN  \E ok \in IF toCopy = {} \/ ~scen.faults THEN {TRUE} ELSE BOOLEAN :
             IF ok
             THEN /\ idx' = [idx EXCEPT ![s.tmpU] = toCopy]
                  /\ st' = [st EXCEPT ![p].pc = "b_tmpdb"]
                  /\ lk' = [lk EXCEPT ![p] = Release(@, {"tdb"})]
             ELSE /\ idx' = idx
                  /\ st' = [st EXCEPT ![p] = FailBetween(s, "CannotCreateIndex", cat)]
                  /\ lk' = lk
    /\ UNCHANGED <<cat, docs, env, scen, gen, envLeft>>

\* AutoGetCollection autoTmpColl(opCtx, tmpCollUUID, MODE_IX) returned:
\* the staging collection may be gone; otherwise the source cursor is opened
\* and its first record read
BetweenCursor(p) ==
    /\ st[p].pc = "b_cursor"
    /\ LET s == st[p]
       IN  IF ~HasUUID(cat, s.tmpU)
           THEN /\ st' = [st EXCEPT ![p] = FailBetween(s, "NamespaceNotFound", cat)]
                /\ lk' = [lk EXCEPT ![p] = Release(@, {"tmp"})]
           ELSE /\ st' = [st EXCEPT ![p] = [s EXCEPT !.pc = "b_copy", !.srcDocs = docs[s.srcU],
                                                     !.cur = IF docs[s.srcU] = <<>> THEN 0 ELSE 1]]
                /\ lk' = lk
    /\ UNCHANGED <<cat, docs, idx, env, scen, gen, envLeft>>

\* the head of the copy loop: at the end of the cursor the staging and source
\* locks are released and the staging collection is promoted; otherwise
\* checkForInterrupt() runs and the batch begins at the current record
CopyNext(p) ==
    /\ st[p].pc = "b_copy"
    /\ LET s == st[p]
       IN  IF s.cur = 0
           THEN /\ st' = [st EXCEPT ![p] = [s EXCEPT !.pc = "w_db", !.wsrc = s.tmp,
                                                     !.wtgt = s.op.tgt, !.ret = "promote"]]
                /\ lk' = [lk EXCEPT ![p] = Release(@, {"tmp", "src"})]
           ELSE \E interrupted \in IF scen.faults THEN BOOLEAN ELSE {FALSE} :
                  IF interrupted
                  THEN /\ st' = [st EXCEPT ![p] = FailBetween(s, "Interrupted", cat)]
                       /\ lk' = [lk EXCEPT ![p] = Release(@, {"tmp"})]
                  ELSE /\ st' = [st EXCEPT ![p] = [s EXCEPT !.pc = "b_batch", !.begin = s.cur]]
                       /\ lk' = lk
    /\ UNCHANGED <<cat, docs, idx, env, scen, gen, envLeft>>

\* the record the batch's write unit starts from: the cursor is reset to the
\* batch's first record when a write conflict left it somewhere else
BatchStart_NoSeek(cur, begin) == cur
BatchStart(cur, begin) == IF cur = 0 \/ begin # cur THEN begin ELSE cur

Advance_Stay(len, from, n) == from
\* the record after `from` once n records were read, 0 at the end
Advance(len, from, n) == IF from = 0 \/ from + n > len THEN 0 ELSE from + n
\* records from..from+n-1 of the source
Batch(d, from, n) ==
    IF from = 0 THEN <<>>
    ELSE SubSeq(d, from, IF from + n - 1 > Len(d) THEN Len(d) ELSE from + n - 1)

\* one run of the batch's write unit: it inserts up to internalInsertMaxBatchSize
\* records and commits, or a WriteConflictException after `k` inserts (k = the
\* batch size: at the fail point before the commit) discards the inserts and
\* leaves the cursor where it was
CopyBatch(p) ==
    /\ st[p].pc = "b_batch"
    /\ LET s == st[p]
           source == docs[s.srcU]
           from == BatchStart(s.cur, s.begin)
       IN  \E k \in 0..scen.batch, conflict \in BOOLEAN :
             /\ conflict => s.retries < MaxRetry
             /\ ~conflict => k = scen.batch
             /\ docs' = IF conflict THEN docs
                        ELSE [docs EXCEPT ![s.tmpU] = @ \o Batch(source, from, k)]
             /\ st' = [st EXCEPT ![p] =
                          [s EXCEPT !.cur = Advance(Len(source), from, k),
                                    !.retries = IF conflict THEN @ + 1 ELSE @,
                                    !.pc = IF conflict THEN "b_batch" ELSE "b_copy"]]
    /\ UNCHANGED <<cat, idx, env, scen, lk, gen, envLeft>>

\* ---------------------------------------------------------- other clients
\* an operation of another client runs when its locks are free: it takes
\* them, acts and releases them in one step
OtherCanLock(r, m) == CanAcquire(lk, 0, r, m)

\* every thread's record of the catalog as it was before its call follows
\* what other clients do to the catalog
Carry(ns, u) ==
    [q \in Procs |-> [st[q] EXCEPT !.pre = [@ EXCEPT ![ns] = u], !.post = [@ EXCEPT ![ns] = u]]]

OtherDrop ==
    /\ envLeft > 0
    /\ \E ns \in scen.otherNs :
          /\ cat[ns] # NoUUID
          /\ OtherCanLock(DbRes(ns.db), "IX") /\ OtherCanLock(ns, "X")
          /\ cat' = [cat EXCEPT ![ns] = NoUUID]
          /\ docs' = Settle(cat', docs, <<>>)
          /\ idx' = Settle(cat', idx, {})
          /\ st' = Carry(ns, NoUUID)
    /\ envLeft' = envLeft - 1
    /\ UNCHANGED <<env, scen, lk, gen>>

OtherCreate ==
    /\ envLeft > 0
    /\ gen < MaxUUID
    /\ \E ns \in scen.otherNs \cap UserNs :
          /\ cat[ns] = NoUUID
          /\ OtherCanLock(DbRes(ns.db), "IX") /\ OtherCanLock(ns, "X")
          /\ cat' = [cat EXCEPT ![ns] = gen + 1]
          /\ st' = Carry(ns, gen + 1)
    /\ gen' = gen + 1
    /\ envLeft' = envLeft - 1
    /\ UNCHANGED <<docs, idx, env, scen, lk>>

OtherInsert ==
    /\ envLeft > 0
    /\ \E ns \in scen.otherNs, d \in DocVals :
          /\ cat[ns] # NoUUID
          /\ Len(docs[cat[ns]]) < MaxDocs
          /\ OtherCanLock(DbRes(ns.db), "IX") /\ OtherCanLock(ns, "IX")
          /\ docs' = [docs EXCEPT ![cat[ns]] = Append(@, d)]
    /\ envLeft' = envLeft - 1
    /\ UNCHANGED <<cat, idx, env, scen, lk, st, gen>>

\* ------------------------------------------------------------ the calls
RenameOp(src, tgt, drop) ==
    [NoOp EXCEPT !.kind = "rename", !.src = src, !.tgt = tgt, !.dropTarget = drop]
ValidateOp(src, tgt, drop) == [RenameOp(src, tgt, drop) EXCEPT !.kind = "validate"]
IfUnchangedOp(src, tgt, drop, opts, ix) ==
    [RenameOp(src, tgt, drop) EXCEPT !.kind = "ifUnchanged", !.origOpts = opts, !.origIdx = ix]
ApplyOp(src, tgt, drop, uuidToDrop, uuidToRename, opTime) ==
    [RenameOp(src, tgt, drop) EXCEPT !.kind = "applyOps", !.uuidToDrop = uuidToDrop,
                                     !.uuidToRename = uuidToRename, !.opTime = opTime]
RollbackOp(tgt, uuid) ==
    [NoOp EXCEPT !.kind = "rollback", !.tgt = tgt, !.uuidToRename = uuid]

AX == Ns("a", "x")
AY == Ns("a", "y")
BX == Ns("b", "x")

\* the node: a primary that logs its writes, and a secondary applying the log
Primary ==
    [replEnabled |-> TRUE, replicated |-> TRUE, primary |-> TRUE, sharded |-> {},
     views |-> {}, localDbs |-> {}, dropPendingDbs |-> {}, bypass |-> FALSE]
Secondary == [Primary EXCEPT !.replicated = FALSE, !.primary = FALSE]

\* the catalogs a behaviour starts from: any set of the user namespaces,
\* each collection with its own UUID
CatOf(S) ==
    [ns \in CatNs |-> IF ns \in S THEN Cardinality({m \in S : ResourceId(m) <= ResourceId(ns)})
                      ELSE NoUUID]
InitCats == {CatOf(S) : S \in SUBSET UserNs}
Live(c) == {ns \in DOMAIN c : c[ns] # NoUUID}

SeqOps ==
    {RenameOp(AX, t, d) : t \in UserNs, d \in BOOLEAN}
    \cup {RenameOp(AY, AX, FALSE)}
    \cup {ApplyOp(AX, AY, d[1], d[2], r, o) :
            d \in {<<FALSE, 0>>, <<TRUE, 0>>, <<TRUE, 1>>, <<TRUE, 2>>},
            r \in {0, 1}, o \in {0, 1}}
    \cup {ApplyOp(AX, AY, TRUE, 1, 2, o) : o \in {0, 1}}
    \cup {ApplyOp(AX, BX, d, 0, r, 0) : d \in BOOLEAN, r \in {0, 1}}
    \cup {RollbackOp(t, u) : t \in {AX, AY}, u \in {1, 2}}
    \cup {IfUnchangedOp(AX, t, TRUE, o, {}) : t \in {AY, BX}, o \in {"none", "default"}}
    \cup {ValidateOp(s, AY, FALSE) : s \in {AX, InvalidNs, ServerConfigNs}}

SeqScen == [procs |-> {1}, calls |-> MaxOps, ops |-> SeqOps, batch |-> 1, faults |-> FALSE,
            otherNs |-> {}, others |-> 0, track |-> FALSE]

InitWith(scs, envs, cats, docsets, idxsets) ==
    /\ scen \in scs
    /\ env \in envs
    /\ cat \in cats
    /\ docs \in {Settle(cat, [u \in UUIDs |-> d], <<>>) : d \in docsets}
    /\ idx \in {Settle(cat, [u \in UUIDs |-> i], {}) : i \in idxsets}
    /\ lk = [p \in Procs |-> {}]
    /\ st = [p \in Procs |-> IdleThread]
    /\ gen = Cardinality(Live(cat))
    /\ envLeft = scen.others

Init == InitWith({SeqScen}, {Primary, Secondary}, InitCats, {<<"d1">>}, {{}})

\* the steps of rename() and of the functions it calls
RenameStep(p) ==
    \/ Begin(p)
    \/ Acquire(p)
    \/ WriteConflict(p)
    \/ WithinRun(p)
    \/ DropRun(p)
    \/ BetweenSetup(p)
    \/ BetweenIndex(p)
    \/ BetweenCursor(p)
    \/ CopyNext(p)
    \/ CopyBatch(p)

\* and of the other entry points
Step(p) ==
    \/ RenameStep(p)
    \/ ApplyRead(p)
    \/ ApplyRun(p)
    \/ IfUnchangedRun(p)

Other == OtherDrop \/ OtherCreate \/ OtherInsert

\* one thread calling the entry points one after the other
Next == \E p \in Procs : Step(p)
Spec == Init /\ [][Next]_vars

\* one thread calling an entry point while other clients create, drop and
\* insert
ConcOps ==
    {RenameOp(AX, t, d) : t \in UserNs, d \in BOOLEAN}
    \cup {ApplyOp(AX, AY, TRUE, u, 0, 0) : u \in {0, 2}}
    \cup {IfUnchangedOp(AX, BX, TRUE, "default", {})}
ConcScen == [procs |-> {1}, calls |-> 1, ops |-> ConcOps, batch |-> 1, faults |-> TRUE,
             otherNs |-> {AX, BX, [db |-> "b", coll |-> "tmp.renameCollection", tok |-> 1]},
             others |-> MaxEnv, track |-> FALSE]
InitConc == InitWith({ConcScen}, {Primary}, {CatOf(S) : S \in {{AX}, {AX, AY}, {AX, BX}}},
                     {<<"d1">>}, {{}, IdxNames})
NextConc == (\E p \in Procs : Step(p)) \/ Other
SpecConc == InitConc /\ [][NextConc]_vars

\* two threads calling rename() at the same time
LockOps == {RenameOp(AX, BX, TRUE), RenameOp(BX, AX, TRUE), RenameOp(AX, AY, TRUE),
            RenameOp(AY, AX, TRUE)}
LockScen == [procs |-> Procs, calls |-> 1, ops |-> LockOps, batch |-> 1, faults |-> FALSE,
             otherNs |-> {}, others |-> 0, track |-> FALSE]
InitLocks == InitWith({LockScen}, {Primary}, {CatOf(S) : S \in {{AX, BX}, {AX, AY, BX}}},
                      {<<"d1">>}, {{}})
NextLocks == \E p \in Procs : RenameStep(p)
SpecLocks == InitLocks /\ [][NextLocks]_vars

\* one thread renaming within a database twice, with a record of its first call
RoundOps == {RenameOp(s, t, d) : s \in {AX, AY}, t \in {AX, AY}, d \in BOOLEAN}
RoundScen == [procs |-> {1}, calls |-> 2, ops |-> RoundOps, batch |-> 1, faults |-> FALSE,
              otherNs |-> {}, others |-> 0, track |-> TRUE]
InitRound == InitWith({RoundScen}, {Primary, Secondary}, InitCats, {<<"d1">>}, {{}})
NextRound == \E p \in Procs : Begin(p) \/ Acquire(p) \/ WriteConflict(p) \/ WithinRun(p)
SpecRound == InitRound /\ [][NextRound]_vars

\* the precondition checker on every node state, sharding state and catalog
\* of database "a"
CheckOp(src, tgt, drop, allowed) ==
    [RenameOp(src, tgt, drop) EXCEPT !.kind = "check", !.targetExistsAllowed = allowed]
CheckOps == {CheckOp(s, t, d, a) : s \in {AX, AY}, t \in {AX, AY, ProfileNs},
                                   d \in BOOLEAN, a \in BOOLEAN}
CheckScen == [procs |-> {1}, calls |-> 1, ops |-> CheckOps, batch |-> 1, faults |-> FALSE,
              otherNs |-> {}, others |-> 0, track |-> FALSE]
CheckEnvs == [replEnabled : BOOLEAN, replicated : BOOLEAN, primary : BOOLEAN,
              sharded : SUBSET {AX, AY}, views : SUBSET {AX, AY}, localDbs : {{}},
              dropPendingDbs : {{}, {"a"}}, bypass : BOOLEAN]
CheckCats == {CatOf(S) : S \in SUBSET {AX, AY, ProfileNs}}
\* a standalone accepts writes; a sharded namespace is a collection; a view
\* is not one
InitCheck ==
    /\ InitWith({CheckScen}, CheckEnvs, CheckCats, {<<"d1">>}, {{}})
    /\ ~env.replEnabled => env.primary
    /\ env.sharded \subseteq Live(cat)
    /\ env.views \cap Live(cat) = {}
NextCheck == \E p \in Procs : Begin(p) \/ CheckRun(p)
SpecCheck == InitCheck /\ [][NextCheck]_vars

\* one cross-database rename, for every source content, batch size and
\* pattern of write conflicts within the bounds
DocSeqs == UNION {[1..n -> DocVals] : n \in 0..MaxDocs}
CopyScen(b) == [procs |-> {1}, calls |-> 1, ops |-> {RenameOp(AX, BX, TRUE)}, batch |-> b,
                faults |-> TRUE, otherNs |-> {}, others |-> 0, track |-> FALSE]
InitCopy == InitWith({CopyScen(b) : b \in 1..MaxBatch}, {Primary},
                     {CatOf(S) : S \in {{AX}, {AX, BX}}}, DocSeqs, {{}})
NextCopy == \E p \in Procs : RenameStep(p)
SpecCopy == InitCopy /\ [][NextCopy]_vars
\* the thread that runs the rename keeps running: an enabled step of the
\* call is eventually taken
SpecCopyFair == SpecCopy /\ WF_vars(NextCopy)

\* one cross-database rename on a primary, on a node that has stepped down
\* while its client's writes are still to be replicated, and on a primary
\* whose database "a" is being dropped
SteppedDown == [Primary EXCEPT !.primary = FALSE]
DroppingA == [Primary EXCEPT !.dropPendingDbs = {"a"}]
BetweenScen == [procs |-> {1}, calls |-> 1, ops |-> {RenameOp(AX, BX, d) : d \in BOOLEAN},
                batch |-> 1, faults |-> TRUE, otherNs |-> {}, others |-> 0, track |-> FALSE]
\* the source and the target start with any sets of indexes
BetweenIdx == {"i1", "i2"}
InitBetween ==
    /\ scen = BetweenScen
    /\ env \in {Primary, SteppedDown, DroppingA}
    /\ cat \in {CatOf(S) : S \in SUBSET {AX, BX}}
    /\ docs = Settle(cat, [u \in UUIDs |-> <<"d1">>], <<>>)
    /\ \E i, j \in SUBSET BetweenIdx :
          idx = Settle(cat, [u \in UUIDs |-> IF u = cat[AX] THEN i ELSE j], {})
    /\ lk = [p \in Procs |-> {}]
    /\ st = [p \in Procs |-> IdleThread]
    /\ gen = Cardinality(Live(cat))
    /\ envLeft = scen.others
NextBetween == \E p \in Procs : RenameStep(p)
SpecBetween == InitBetween /\ [][NextBetween]_vars

\* one log entry applied to database "a", whose source may be missing or
\* a collection that waits for its drop to be committed
ApplyOps == {ApplyOp(s, AY, d, ud, ur, o) : s \in {AX, DropPendingNs}, d \in BOOLEAN,
                                            ud \in 0..2, ur \in {0, 1, 3}, o \in {0, 1}}
ApplyScen == [procs |-> {1}, calls |-> 1, ops |-> ApplyOps, batch |-> 1, faults |-> FALSE,
              otherNs |-> {}, others |-> 0, track |-> FALSE]
InitApply == InitWith({ApplyScen}, {Primary, Secondary},
                      {CatOf(S) : S \in SUBSET {AX, AY, DropPendingNs}}, {<<"d1">>}, {{}})
NextApply ==
    \E p \in Procs : \/ Begin(p) \/ Acquire(p) \/ WriteConflict(p)
                      \/ ApplyRead(p) \/ ApplyRun(p) \/ DropRun(p)
SpecApply == InitApply /\ [][NextApply]_vars

\* one call of renameIfUnchanged, with every captured original, while other
\* clients create and drop the target
UnchangedOps == {IfUnchangedOp(AX, t, TRUE, o, ix) :
                    t \in {AY, BX}, o \in {"none", "default"}, ix \in {{}, IdxNames}}
UnchangedScen == [procs |-> {1}, calls |-> 1, ops |-> UnchangedOps, batch |-> 1,
                  faults |-> FALSE, otherNs |-> {AY, BX}, others |-> MaxEnv, track |-> FALSE]
InitUnchanged == InitWith({UnchangedScen}, {Primary},
                          {CatOf(S) : S \in {{AX}, {AX, AY}, {AX, BX}}},
                          {<<"d1">>}, {{}, IdxNames})
NextUnchanged == (\E p \in Procs : RenameStep(p) \/ IfUnchangedRun(p)) \/ Other
SpecUnchanged == InitUnchanged /\ [][NextUnchanged]_vars

\* one call of rename() or of the validating entry point with every kind of
\* namespace, on a replica-set primary and on a standalone
Standalone == [Primary EXCEPT !.replEnabled = FALSE, !.localDbs = {"local"}]
PrimaryWithLocal == [Primary EXCEPT !.localDbs = {"local"}]
EntryOps ==
    {RenameOp(s, t, d) : s \in {AX, DropPendingNs, SystemViewsNs},
                         t \in {AY, BX, SystemViewsNs}, d \in BOOLEAN}
    \cup {ValidateOp(s, t, TRUE) :
            s \in {AX, InvalidNs, OplogNs, ServerConfigNs, DropPendingNs, SystemViewsNs},
            t \in {AY, BX, InvalidNs, OplogNs, DropPendingNs}}
EntryScen == [procs |-> {1}, calls |-> 1, ops |-> EntryOps, batch |-> 1, faults |-> FALSE,
              otherNs |-> {}, others |-> 0, track |-> FALSE]
InitEntry == InitWith({EntryScen}, {PrimaryWithLocal, Standalone},
                      {CatOf(S) : S \in SUBSET {AX, AY, DropPendingNs}}, {<<"d1">>}, {{}})
NextEntry == \E p \in Procs : RenameStep(p)
SpecEntry == InitEntry /\ [][NextEntry]_vars

\* two sessions in database "a": same-database renames of a.x and a.y in
\* both directions, renames to and from the views catalog (which only the
\* rollback entry point lets through), and view operations
ViewOp(ns) == [NoOp EXCEPT !.kind = "viewOp", !.src = ns]
SameDbCat == CatOf({AX, AY, SystemViewsNs})
SameDbOps ==
    {RenameOp(AX, AY, TRUE), RenameOp(AY, AX, TRUE)}
    \cup {RollbackOp(SystemViewsNs, SameDbCat[AX]), RollbackOp(AX, SameDbCat[SystemViewsNs])}
    \cup {ViewOp(AX), ViewOp(AY)}
SameDbScen == [procs |-> Procs, calls |-> 1, ops |-> SameDbOps, batch |-> 1, faults |-> FALSE,
               otherNs |-> {}, others |-> 0, track |-> FALSE]
InitSameDb == InitWith({SameDbScen}, {Primary}, {SameDbCat}, {<<"d1">>}, {{}})
NextSameDb ==
    \E p \in Procs : Begin(p) \/ Acquire(p) \/ WriteConflict(p) \/ WithinRun(p) \/ ViewRun(p)
SpecSameDb == InitSameDb /\ [][NextSameDb]_vars

\* one session whose renames onto an existing target run
\* renameCollectionAndDropTarget call by call, with failing catalog calls;
\* the function is also called on its own, with any arguments
SwapOp(src, tgt, drop, opTime) ==
    [NoOp EXCEPT !.kind = "swap", !.src = src, !.tgt = tgt, !.dropTarget = drop,
                 !.opTime = opTime]
SwapOps ==
    {RenameOp(AX, AY, d) : d \in BOOLEAN}
    \cup {ApplyOp(AX, AY, TRUE, 1, 0, o) : o \in {0, 1}}
    \cup {ApplyOp(AX, AY, FALSE, 0, 0, 0)}
    \cup {SwapOp(AX, t, d, o) : t \in {AY, ProfileNs}, d \in BOOLEAN, o \in {0, 1}}
SwapScen == [procs |-> {1}, calls |-> MaxOps, ops |-> SwapOps, batch |-> 1, faults |-> TRUE,
             otherNs |-> {}, others |-> 0, track |-> FALSE]
InitSwap == InitWith({SwapScen}, {Primary, Secondary}, {CatOf({AX, AY, ProfileNs})},
                     {<<"d1">>}, {{}})
NextSwap ==
    \E p \in Procs :
        \/ Begin(p) \/ Acquire(p)
        \/ SwapEnter(p) \/ SwapStep(p) \/ SwapConflict(p)
        \/ (~SwapCase(p) /\ WithinRun(p))
        \/ ApplyRead(p)
        \/ (~SwapCase(p) /\ ApplyRun(p))
        \/ DropRun(p)
SpecSwap == InitSwap /\ [][NextSwap]_vars

\* one session applying log entries that rename a.x to a.y, over a collection
\* or over nothing, with every choice of the UUID to drop: none, the target,
\* the source, and a third collection of the database; the entry may name
\* its source by the UUID of the collection at a.y
AsideCat == CatOf({AX, AY, ProfileNs})
AsideOps == {ApplyOp(AX, AY, d, u, r, 0) : d \in BOOLEAN, u \in 0..3, r \in {0, 1}}
AsideScen == [procs |-> {1}, calls |-> MaxOps, ops |-> AsideOps, batch |-> 1, faults |-> FALSE,
              otherNs |-> {}, others |-> 0, track |-> FALSE]
InitAside == InitWith({AsideScen}, {Primary, Secondary},
                      {AsideCat, CatOf({AX, AY}), CatOf({AX, ProfileNs}), CatOf({AX})},
                      {<<"d1">>}, {{}})
NextAside ==
    \E p \in Procs :
        \/ Begin(p) \/ Acquire(p) \/ WriteConflict(p)
        \/ ApplyRead(p) \/ ApplyRun(p) \/ DropRun(p)
SpecAside == InitAside /\ [][NextAside]_vars

\* ================================================================ claims
Done(p) == st[p].pc = "done"
Ended(p) == st[p].pc \in {"done", "aborted"}
SameDbPath(p) == st[p].path \in {"within", "applyWithin"}

\* one onRenameCollection, or one preRenameCollection and its postRenameCollection
OneRenameEvent(ev) ==
    \/ Len(ev) = 1 /\ ev[1].type = "onRename"
    \/ Len(ev) = 2 /\ ev[1].type = "pre" /\ ev[2] = [ev[1] EXCEPT !.type = "post"]

\* C2 as stated: every same-database rename that returns success leaves the
\* target namespace resolving to the UUID the source had, and the source
\* namespace resolving to nothing
C2_SameDbKeepsUUID_AsStated ==
    \A p \in Procs :
        (Done(p) /\ st[p].res = "OK" /\ SameDbPath(p)) =>
            /\ st[p].post[st[p].op.tgt] = st[p].pre[st[p].src]
            /\ st[p].post[st[p].src] = NoUUID

\* C2, amended: a same-database rename that returns success, whose source and
\* target namespaces differ and whose UUID-to-drop is not the source's own
\* UUID, leaves the target resolving to the UUID the source had and the source
\* resolving to nothing
C2_SameDbKeepsUUID ==
    \A p \in Procs :
        (/\ Done(p) /\ st[p].res = "OK" /\ SameDbPath(p)
         /\ st[p].src # st[p].op.tgt
         /\ st[p].op.uuidToDrop # st[p].pre[st[p].src]) =>
            /\ st[p].pre[st[p].src] # NoUUID
            /\ st[p].post[st[p].op.tgt] = st[p].pre[st[p].src]
            /\ st[p].post[st[p].src] = NoUUID

C2_Witness ==
    \E p \in Procs :
        /\ Done(p) /\ st[p].res = "OK" /\ st[p].path = "applyWithin"
        /\ st[p].pre[st[p].op.tgt] # NoUUID
        /\ st[p].post[st[p].op.tgt] = st[p].pre[st[p].src]
        /\ st[p].post[st[p].src] = NoUUID

\* C3: a cross-database rename that returns success leaves a collection at
\* the target whose UUID is not the UUID the source had, and the source
\* namespace resolving to nothing
C3_CrossDbNewUUID ==
    \A p \in Procs :
        (Done(p) /\ st[p].res = "OK" /\ st[p].path = "between") =>
            /\ st[p].post[st[p].op.tgt] # NoUUID
            /\ st[p].post[st[p].op.tgt] # st[p].pre[st[p].src]
            /\ st[p].post[st[p].src] = NoUUID

C3_Witness ==
    \E p \in Procs :
        /\ Done(p) /\ st[p].res = "OK" /\ st[p].path = "between"
        /\ st[p].pre[st[p].src] # NoUUID
        /\ st[p].pre[st[p].op.tgt] # NoUUID

\* C4 as stated: every rename that returns success has emitted exactly one
\* rename event
C4_OneEvent_AsStated ==
    \A p \in Procs : (Done(p) /\ st[p].res = "OK") => OneRenameEvent(st[p].ev)

\* the call rebound a source collection to the target namespace
Rebound(p) ==
    \/ st[p].path = "between"
    \/ /\ SameDbPath(p)
       /\ st[p].src # st[p].op.tgt
       /\ st[p].post[st[p].op.tgt] = st[p].pre[st[p].src]

\* C4, amended: a rename that returns success and rebound the source to the
\* target has emitted exactly one rename event, whatever write conflicts were
\* retried; a success that rebinds nothing (the apply-ops no-op and the rename
\* downgraded to a drop) has emitted none; and no call, failed or not, emits
\* more than one
C4_OneEvent ==
    \A p \in Procs :
        /\ (Done(p) /\ st[p].res = "OK" /\ Rebound(p)) => OneRenameEvent(st[p].ev)
        /\ (Done(p) /\ st[p].res = "OK" /\ ~Rebound(p)) => st[p].ev = <<>>
        /\ st[p].ev = <<>> \/ OneRenameEvent(st[p].ev)

C4_Witness ==
    \E p \in Procs :
        /\ Done(p) /\ st[p].res = "OK" /\ st[p].retries > 0
        /\ Len(st[p].ev) = 2

\* the call applies again the log entry the thread's previous call applied
\* with success and with a rename event
Replayed(p) ==
    /\ Done(p) /\ st[p].op.kind = "applyOps"
    /\ st[p].replayOf > 0

\* C9 as stated: applying a renameCollection entry again after it was applied
\* with success returns success, leaves the catalog as it was and emits no
\* observer event
C9_ReplayIsNoOp_AsStated ==
    \A p \in Procs :
        Replayed(p) => st[p].res = "OK" /\ st[p].post = st[p].pre /\ st[p].ev = <<>>

\* C9, amended: applying again a same-database entry that names the renamed
\* collection by UUID (uuidToRename resolves to the collection now at the
\* target), and whose UUID-to-drop, if it has one, resolves to no collection
\* any more, returns success, leaves the catalog as it was and emits no event
C9_ReplayIsNoOp ==
    \A p \in Procs :
        (/\ Replayed(p)
         /\ st[p].op.src.db = st[p].op.tgt.db
         /\ st[p].op.uuidToRename # NoUUID
         /\ st[p].pre[st[p].op.tgt] = st[p].op.uuidToRename
         /\ st[p].op.uuidToDrop = NoUUID \/ ~HasUUID(st[p].pre, st[p].op.uuidToDrop)) =>
            st[p].res = "OK" /\ st[p].post = st[p].pre /\ st[p].ev = <<>> /\ st[p].drops = <<>>

C9_Witness ==
    \E p \in Procs :
        /\ Replayed(p)
        /\ st[p].op.uuidToRename # NoUUID
        /\ st[p].pre[st[p].op.src] = NoUUID
        /\ st[p].pre[st[p].op.tgt] = st[p].op.uuidToRename
        /\ st[p].replayOf = 2
        /\ st[p].res = "OK"

\* the call found the target namespace holding the collection it was to rename
SameUUID(p) ==
    /\ Ended(p)
    /\ st[p].path # "none"
    /\ st[p].pre[st[p].src] # NoUUID
    /\ st[p].pre[st[p].op.tgt] = st[p].pre[st[p].src]
UnchangedNoOp(p) ==
    /\ st[p].post = st[p].pre /\ st[p].ev = <<>> /\ st[p].drops = <<>> /\ st[p].tmp = NoNs

\* C10 as stated: a rename whose target already resolves to the collection
\* with the source's UUID returns success as a no-op
C10_SameUUIDIsNoOp_AsStated ==
    \A p \in Procs :
        SameUUID(p) => st[p].pc = "done" /\ st[p].res = "OK" /\ UnchangedNoOp(p)

\* C10, amended: through renameForApplyOps such a rename returns success as a
\* no-op (no staging collection, no drop, no event, no abort) when no
\* UUID-to-drop is supplied, or it is that same UUID, or it resolves to no
\* collection; through the other entry points it fails and changes nothing;
\* and the case is always a same-database one, the source and the target
\* being the same namespace
C10_SameUUIDIsNoOp ==
    \A p \in Procs :
        SameUUID(p) =>
            /\ st[p].pc = "done" /\ st[p].ev = <<>> /\ st[p].tmp = NoNs
            /\ SameDbPath(p) /\ st[p].src = st[p].op.tgt
            /\ st[p].op.kind # "applyOps" =>
                  /\ st[p].res \in {"NamespaceExists", "NamespaceNotFound"}
                  /\ UnchangedNoOp(p)
            /\ (/\ st[p].op.kind = "applyOps"
                /\ \/ st[p].op.uuidToDrop \in {NoUUID, st[p].pre[st[p].src]}
                   \/ ~HasUUID(st[p].pre, st[p].op.uuidToDrop)) =>
                  st[p].res = "OK" /\ UnchangedNoOp(p)

C10_Witness ==
    \E p \in Procs :
        /\ SameUUID(p) /\ st[p].op.kind = "applyOps" /\ st[p].res = "OK"
        /\ st[p].op.uuidToDrop # NoUUID

\* ---------------------------------------------------- concurrent clients
\* C1: whenever an entry point has returned a failure, the catalog is the
\* catalog before the call (as other clients have changed it since) and no
\* staging collection of the call is left
C1_FailureLeavesCatalog ==
    \A p \in Procs :
        (Done(p) /\ st[p].res # "OK") =>
            /\ st[p].post = st[p].pre
            /\ st[p].tmp # NoNs => st[p].post[st[p].tmp] = NoUUID

\* another client can take the locks a reader of the namespace takes
ReaderCanRead(ns) == OtherCanLock(DbRes(ns.db), "IS") /\ OtherCanLock(ns, "IS")
Renaming(p) == st[p].path \in {"within", "applyWithin", "between"} /\ st[p].res \in {"", "OK"}
PreState(p) ==
    /\ cat[st[p].src] = st[p].pre[st[p].src]
    /\ cat[st[p].op.tgt] = st[p].pre[st[p].op.tgt]
PostState(p) ==
    /\ cat[st[p].src] = NoUUID
    /\ cat[st[p].op.tgt] \notin {NoUUID, st[p].pre[st[p].op.tgt]}

\* C5 as stated: a reader that can look at the source and the target during a
\* rename sees the state before the rename or the state after it, and a
\* reader that can look at the staging namespace sees no collection there
C5_ReaderSeesPreOrPost_AsStated ==
    \A p \in Procs :
        Renaming(p) =>
            /\ (ReaderCanRead(st[p].src) /\ ReaderCanRead(st[p].op.tgt)) =>
                  PreState(p) \/ PostState(p)
            /\ (st[p].tmp # NoNs /\ ReaderCanRead(st[p].tmp)) => cat[st[p].tmp] = NoUUID

\* C5, amended: a same-database rename changes the catalog in one step only,
\* the step on which it returns success: until then a reader sees the state
\* before the rename, and from then on the state after it
C5_SameDbAtomic ==
    [][\A p \in Procs :
          (SameDbPath(p) /\ cat' # cat /\ envLeft' = envLeft) =>
              /\ cat = st[p].pre
              /\ st'[p].pc = "done" /\ st'[p].res = "OK"
              /\ st'[p].post = cat']_vars

C5_Witness ==
    \E p \in Procs :
        /\ Done(p) /\ st[p].res = "OK" /\ SameDbPath(p)
        /\ Len(st[p].ev) = 2 /\ st[p].drops # <<>>
        /\ envLeft < scen.others

\* the staging collection of the thread's cross-database rename is in the catalog
StagingExists(p) ==
    /\ st[p].path = "between" /\ st[p].tmp # NoNs
    /\ cat[st[p].tmp] = st[p].tmpU

C6_NoWaitCycle ==
    ~\E p, q \in Procs : p # q /\ q \in WaitsFor(p) /\ p \in WaitsFor(q)

\* ------------------------------------------------------------ the bulk copy
\* the first n records
Prefix(d, n) == SubSeq(d, 1, n)

\* C8: between batches the staging collection holds the source's records up
\* to the cursor, each once and in cursor order; a batch, retried or not,
\* starts from the staged records before its first record; and a rename that
\* returns success leaves at the target exactly the source's records, as a
\* run without write conflicts does
C8_CopyEqualsSource ==
    \A p \in Procs :
        /\ st[p].pc = "b_copy" =>
              docs[st[p].tmpU] = IF st[p].cur = 0 THEN st[p].srcDocs
                                 ELSE Prefix(st[p].srcDocs, st[p].cur - 1)
        /\ st[p].pc = "b_batch" => docs[st[p].tmpU] = Prefix(st[p].srcDocs, st[p].begin - 1)
        /\ (Done(p) /\ st[p].res = "OK" /\ st[p].path = "between") =>
              docs[st[p].post[st[p].op.tgt]] = st[p].srcDocs

C8_Witness ==
    \E p \in Procs :
        /\ st[p].pc = "b_copy" /\ st[p].cur = 0 /\ st[p].retries > 0
        /\ Len(st[p].srcDocs) = 2 /\ st[p].srcDocs[1] # st[p].srcDocs[2]
        /\ docs[st[p].tmpU] = st[p].srcDocs

\* ------------------------------------------------ same-database renames
\* C11: a same-database rename without dropTarget whose source and target
\* both resolve to collections fails with NamespaceExists and leaves both
\* collections as they were, with no observer event and no drop
C11_CollisionFails ==
    \A p \in Procs :
        (/\ Ended(p) /\ st[p].path = "within" /\ ~DropTargetOf(st[p].op)
         /\ st[p].pre[st[p].src] # NoUUID /\ st[p].pre[st[p].op.tgt] # NoUUID) =>
            /\ Done(p) /\ st[p].res = "NamespaceExists"
            /\ st[p].post = st[p].pre
            /\ st[p].ev = <<>> /\ st[p].drops = <<>>

C11_Witness ==
    \E p \in Procs :
        /\ Done(p) /\ st[p].op = RenameOp(AX, AY, FALSE)
        /\ st[p].pre[AX] # NoUUID /\ st[p].pre[AY] # NoUUID /\ st[p].pre[AX] # st[p].pre[AY]
        /\ st[p].res = "NamespaceExists"

\* the thread renamed A to B and then B to A, both with success, B not
\* existing at first
RoundTrip(p) ==
    /\ Done(p) /\ st[p].res = "OK" /\ st[p].path = "within"
    /\ Len(st[p].hist) = 1
    /\ st[p].hist[1].res = "OK"
    /\ st[p].hist[1].op.kind = "rename"
    /\ st[p].op = [st[p].hist[1].op EXCEPT !.src = st[p].hist[1].op.tgt,
                                           !.tgt = st[p].hist[1].op.src]
    /\ st[p].hist[1].pre[st[p].hist[1].op.tgt] = NoUUID

\* C12: after rename(A, B) and rename(B, A) on one database, both with
\* success and B not existing at first, the catalog is the initial catalog:
\* A resolves to the UUID it had and B to nothing
C12_RoundTrip ==
    \A p \in Procs :
        RoundTrip(p) =>
            /\ st[p].post = st[p].hist[1].pre
            /\ st[p].post[st[p].op.tgt] = st[p].hist[1].pre[st[p].hist[1].op.src]
            /\ st[p].post[st[p].op.tgt] # NoUUID
            /\ st[p].post[st[p].op.src] = NoUUID

C12_Witness ==
    \E p \in Procs :
        /\ RoundTrip(p)
        /\ st[p].op.src = AY /\ st[p].op.tgt = AX
        /\ st[p].post[AX] # NoUUID /\ st[p].post[BX] # NoUUID

\* ------------------------------------------------ precondition checker
\* the checks in the order the checker is said to make them, each with the
\* error it gives
CheckList(c, e, source, target, dropTarget, targetExistsAllowed) ==
    << <<e.replicated /\ ~e.primary, "NotMaster">>,
       <<source \in e.sharded /\ ~e.bypass, "IllegalOperation">>,
       <<isOplogDisabledFor(e, source) # isOplogDisabledFor(e, target), "IllegalOperation">>,
       <<~DbExists(c, e, source.db) \/ source.db \in e.dropPendingDbs, "NamespaceNotFound">>,
       <<Lookup(c, source) = NoUUID /\ source \in e.views, "CommandNotSupportedOnView">>,
       <<Lookup(c, source) = NoUUID, "NamespaceNotFound">>,
       <<Lookup(c, target) # NoUUID /\ target \in e.sharded, "IllegalOperation">>,
       <<Lookup(c, target) # NoUUID /\ ~targetExistsAllowed /\ ~dropTarget, "NamespaceExists">>,
       <<Lookup(c, target) = NoUUID /\ target \in e.views, "NamespaceExists">> >>

FirstFailing(L) ==
    IF \E i \in 1..Len(L) : L[i][1]
    THEN L[CHOOSE i \in 1..Len(L) : L[i][1] /\ \A j \in 1..(i - 1) : ~L[j][1]][2]
    ELSE "OK"

Checked(p) == Done(p) /\ st[p].op.kind = "check"

\* C13: the precondition checker returns the error of the first failing
\* check in the order: not primary for replicated writes, source sharded
\* without the bypass, source and target differing in being replicated,
\* source database missing or drop-pending, source a view, source not a
\* collection, target a sharded collection, target a collection with neither
\* targetExistsAllowed nor dropTarget, target a view; and it returns success
\* exactly when none of them fails
C13_FirstFailingCheck ==
    \A p \in Procs :
        Checked(p) =>
            st[p].res = FirstFailing(CheckList(cat, env, st[p].op.src, st[p].op.tgt,
                                               st[p].op.dropTarget,
                                               st[p].op.targetExistsAllowed))

\* two checks fail and the earlier one's error is returned
C13_Witness ==
    \E p \in Procs :
        /\ Checked(p)
        /\ env.replicated /\ ~env.primary
        /\ st[p].op.src \in env.sharded /\ ~env.bypass
        /\ "a" \in env.dropPendingDbs
        /\ st[p].res = "NotMaster"

\* ------------------------------------------- cross-database preconditions
\* C14: when a check of the precondition checker fails in the state a
\* cross-database rename is called in, the rename changes nothing in the
\* catalog (creates no staging collection) and returns that check's error
C14_CrossDbAppliesChecker ==
    \A p \in Procs :
        LET s == st[p]
            status == checkSourceAndTargetNamespaces(s.pre, env, s.op.src, s.op.tgt,
                                                     DropTargetOf(s.op), FALSE)
        IN  (s.path = "between" /\ status # "OK") =>
                /\ cat = s.pre
                /\ Done(p) => s.res = status

\* ------------------------------------------------- applying a log entry
Applied(p) == Ended(p) /\ st[p].op.kind = "applyOps"
Rejected(p) == Done(p) /\ st[p].res # "OK" /\ st[p].post = st[p].pre /\ st[p].ev = <<>>

\* C15 as stated: a call with a non-null renameOpTime while writes are
\* replicated is rejected with BadValue, and a call with a null renameOpTime
\* while writes are not replicated is rejected too, both without a catalog
\* change
C15_OpTimeIffReplicated_AsStated ==
    \A p \in Procs :
        Applied(p) =>
            /\ (st[p].op.opTime # 0 /\ env.replicated) =>
                   Rejected(p) /\ st[p].res = "BadValue"
            /\ (st[p].op.opTime = 0 /\ ~env.replicated) => Rejected(p)

\* C15: a call with a non-null renameOpTime while writes are replicated is
\* rejected with BadValue before any lock or catalog change; a call with a
\* null renameOpTime is never rejected with BadValue, whether or not writes
\* are replicated
C15_OpTimeRejectedWhenReplicated ==
    \A p \in Procs :
        Applied(p) =>
            /\ (st[p].op.opTime # 0 /\ env.replicated) =>
                   Rejected(p) /\ st[p].res = "BadValue" /\ st[p].path = "none"
            /\ st[p].op.opTime = 0 => st[p].res # "BadValue"

\* a rename that would have succeeded is refused for its optime
C15_Witness ==
    \E p \in Procs :
        /\ Applied(p) /\ st[p].op.opTime # 0 /\ env.replicated
        /\ st[p].pre[st[p].op.src] # NoUUID /\ st[p].pre[st[p].op.tgt] = NoUUID
        /\ st[p].res = "BadValue"

\* the call got past the entry checks and found its effective source
\* drop-pending or not a collection
Downgraded(p) ==
    /\ Applied(p)
    /\ ~(st[p].op.opTime # 0 /\ env.replicated)
    /\ isDropPendingNamespace(st[p].src) \/ st[p].pre[st[p].src] = NoUUID

\* the collection the claim says is dropped
DropNsOf(p) ==
    IF st[p].op.uuidToDrop # NoUUID THEN getNamespaceFromUUID(st[p].pre, st[p].op.uuidToDrop)
    ELSE IF st[p].op.dropTarget THEN st[p].op.tgt
    ELSE NoNs

\* C16: when the effective source of renameForApplyOps is drop-pending or
\* not a collection, nothing is renamed and no rename event is emitted; the
\* collection named by the UUID-to-drop, or without one the parsed target
\* when dropTarget is true, is dropped once with the caller's renameOpTime;
\* with no collection to drop the catalog is unchanged, and with neither a
\* UUID-to-drop nor dropTarget the result is NamespaceNotFound
C16_DowngradeToDrop ==
    \A p \in Procs :
        Downgraded(p) =>
            LET s == st[p]
                ns == DropNsOf(p)
            IN  /\ Done(p) /\ s.ev = <<>>
                /\ IF ns # NoNs /\ s.pre[ns] # NoUUID
                   THEN /\ s.res = "OK"
                        /\ s.drops = <<Drop(s.pre[ns], ns, s.op.opTime)>>
                        /\ s.post = [s.pre EXCEPT ![ns] = NoUUID]
                   ELSE /\ s.drops = <<>> /\ s.post = s.pre
                        /\ ns = NoNs => s.res = "NamespaceNotFound"

\* a drop-pending source that is still a collection, and a UUID-to-drop that
\* names another collection than the parsed target
C16_Witness ==
    \E p \in Procs :
        /\ Downgraded(p)
        /\ isDropPendingNamespace(st[p].src) /\ st[p].pre[st[p].src] # NoUUID
        /\ st[p].op.uuidToDrop # NoUUID /\ DropNsOf(p) = AX /\ st[p].pre[AY] # NoUUID
        /\ st[p].op.opTime # 0
        /\ Len(st[p].drops) = 1 /\ st[p].post[AX] = NoUUID /\ st[p].post[AY] # NoUUID

\* ------------------------------------------------- renameIfUnchanged
\* the call is between taking its target database lock and its return
Comparing(p) ==
    /\ st[p].op.kind = "ifUnchanged"
    /\ st[p].pc \notin {"idle", "u_db", "done", "aborted"}

\* the target's options or indexes are not the captured originals
Differs(p) ==
    \/ st[p].op.origOpts # OptionsWithoutUUID(cat, st[p].op.tgt)
    \/ st[p].op.origIdx # listIndexes(cat, idx, st[p].op.tgt)

\* the comparison: CommandFailed and nothing changed when they differ, the
\* validating entry point otherwise
ComparisonDecides ==
    \A p \in Procs :
        (st[p].pc = "u_check" /\ st'[p].pc # "u_check") =>
            IF Differs(p)
            THEN /\ st'[p].pc = "done" /\ st'[p].res = "CommandFailed"
                 /\ st'[p].path = "none" /\ st'[p].ev = <<>>
                 /\ cat' = cat /\ idx' = idx /\ docs' = docs
            ELSE st'[p].res # "CommandFailed"

\* a step of another client leaves the target's options and indexes alone
\* while the call is between its comparison and its return
TargetStable ==
    \A p \in Procs :
        (Comparing(p) /\ envLeft' # envLeft) =>
            /\ Lookup(cat', st[p].op.tgt) = Lookup(cat, st[p].op.tgt)
            /\ listIndexes(cat', idx', st[p].op.tgt) = listIndexes(cat, idx, st[p].op.tgt)

\* C17: renameIfUnchanged goes on to the rename only when the target's
\* options without the UUID and its indexes equal the captured originals,
\* and otherwise fails with CommandFailed and changes nothing; the exclusive
\* lock on the target database is held from the comparison to the return,
\* and no other client changes the target in between
C17_RenameIfUnchanged ==
    /\ [](\A p \in Procs :
            Comparing(p) => isDbLockedForMode(lk, p, st[p].op.tgt.db, "X"))
    /\ [][ComparisonDecides /\ TargetStable]_vars

\* another client has acted while the delegated rename was running, after a
\* comparison that found the target unchanged
C17_Witness ==
    \E p \in Procs :
        /\ Comparing(p) /\ st[p].pc \notin {"u_check"}
        /\ st[p].path = "between"
        /\ st[p].pre[st[p].op.tgt] # NoUUID
        /\ envLeft < scen.others

\* ----------------------------------------------------------- entry points
\* the thread enters a call of the given kind in this step
Calls(p, kind) == st[p].pc = "idle" /\ st'[p].pc # "idle" /\ st'[p].op.kind = kind

\* the call returns `status` in the step that enters it: no lock was asked
\* for, nothing was dispatched and nothing changed
RefusedAtEntry(p, status) ==
    /\ st'[p].pc = "done" /\ st'[p].res = status
    /\ st'[p].path = "none" /\ st'[p].ev = <<>> /\ st'[p].drops = <<>>
    /\ lk'[p] = {} /\ cat' = cat /\ docs' = docs /\ idx' = idx

\* the checks of the validating entry point as listed, with their errors
ValidateList(e, source, target) ==
    << <<~isValid(source) \/ ~isValid(target), "InvalidNamespace">>,
       <<e.replEnabled /\ (isOplog(source) \/ isOplog(target)), "IllegalOperation">>,
       <<isOplog(source) # isOplog(target), "IllegalOperation">>,
       <<userAllowedWriteNS(source) # "OK" \/ userAllowedWriteNS(target) # "OK",
         "IllegalOperation">>,
       <<isServerConfigurationCollection(source), "IllegalOperation">> >>

\* C18: validateAndRun reaches rename() only when both namespaces are valid
\* (else InvalidNamespace), with replication enabled neither is the oplog,
\* the source is the oplog exactly when the target is, both are
\* user-writable and the source is not the server-configuration collection
\* (else IllegalOperation); a failing check ends the call before any lock is
\* taken or anything is changed
C18_ValidateBeforeRename ==
    [][\A p \in Procs :
          Calls(p, "validate") =>
              LET status == FirstFailing(ValidateList(env, st'[p].op.src, st'[p].op.tgt))
              IN  IF status # "OK" THEN RefusedAtEntry(p, status)
                  ELSE st'[p] = renameCollection(NewCall(st[p], st'[p].op, cat), cat,
                                                 st'[p].op.src, st'[p].op.tgt)]_vars

\* with replication disabled, a rename of a collection to the oplog's name
\* is refused by the both-or-neither check
C18_Witness ==
    \E p \in Procs :
        /\ Done(p) /\ st[p].op = ValidateOp(AX, OplogNs, TRUE)
        /\ ~env.replEnabled /\ st[p].pre[AX] # NoUUID
        /\ st[p].res = "IllegalOperation" /\ st[p].path = "none"

\* C19: rename() returns NamespaceNotFound for a drop-pending source and
\* IllegalOperation when source or target is the views catalog, without a
\* lock or a change; otherwise it runs the same-database renamer exactly
\* when the two databases are equal and the cross-database copier exactly
\* when they differ
C19_RenameDispatch ==
    [][\A p \in Procs :
          Calls(p, "rename") =>
              LET source == st'[p].op.src
                  target == st'[p].op.tgt
              IN  IF isDropPendingNamespace(source) THEN RefusedAtEntry(p, "NamespaceNotFound")
                  ELSE IF isSystemDotViews(source) \/ isSystemDotViews(target)
                      THEN RefusedAtEntry(p, "IllegalOperation")
                  ELSE /\ st'[p].path = IF source.db = target.db THEN "within" ELSE "between"
                       /\ st'[p].pc = IF source.db = target.db THEN "w_db" ELSE "b_sdb"
                       /\ st'[p].src = source
                       /\ cat' = cat]_vars

\* a drop-pending source that is still a collection is refused
C19_Witness ==
    \E p \in Procs :
        /\ Done(p) /\ st[p].op.kind = "rename"
        /\ isDropPendingNamespace(st[p].op.src) /\ st[p].pre[st[p].op.src] # NoUUID
        /\ st[p].res = "NamespaceNotFound" /\ st[p].post = st[p].pre

\* ------------------------------------------------------ release of locks
\* C20: once an entry point has returned or thrown, whatever the exit
\* (success, precondition failure, interruption of the copy, failed index
\* creation, failed promotion), the thread holds none of the database and
\* collection locks it took during the call
C20_LocksReleased == \A p \in Procs : Done(p) => lk[p] = {}

\* the promotion of the staging collection failed after the copy, and the
\* staging collection was dropped
C20_Witness ==
    \E p \in Procs :
        /\ Done(p) /\ st[p].path = "between" /\ st[p].tmpU # NoUUID
        /\ st[p].cur = 0 /\ st[p].ret = "promote"
        /\ st[p].res = "NamespaceExists" /\ ~HasUUID(cat, st[p].tmpU)
        /\ lk[p] = {}

\* ------------------------------------------------ cross-database copier
CrossDbDone(p) == Done(p) /\ st[p].path = "between" /\ st[p].res = "OK"

\* C21: after a successful cross-database rename the collection at the
\* target has exactly the indexes the source collection had (the _id index
\* is made with the collection and is not among them)
C21_IndexesCopied ==
    \A p \in Procs :
        CrossDbDone(p) =>
            /\ st[p].post[st[p].op.tgt] = st[p].tmpU
            /\ idx[st[p].tmpU] = st[p].srcIdx

\* the source had two indexes and the dropped target another set
C21_Witness ==
    \E p \in Procs :
        /\ CrossDbDone(p)
        /\ st[p].srcIdx = BetweenIdx
        /\ st[p].pre[st[p].op.tgt] # NoUUID
        /\ idx[st[p].tmpU] = BetweenIdx

\* ------------------------------------------------- same-database locking
\* a set of threads each of which waits for a lock another one of them holds
Deadlocked(W) == W # {} /\ \A p \in W : WaitsFor(p) \cap W # {}

\* the collection locks a same-database rename holds
HeldColls(p) == {h.r : h \in {g \in lk[p] : g.scope = "w" /\ g.r.coll # ""}}

\* C22: a same-database rename holds its database in intent-exclusive mode
\* before any collection lock, takes the two collection locks in exclusive
\* mode with the views catalog last and otherwise in ascending resource-id
\* order, and no set of same-database renames and view operations waits in
\* a cycle
C22_SameDbLockOrder ==
    /\ \A W \in SUBSET Procs : ~Deadlocked(W)
    /\ \A p \in Procs :
          (st[p].path = "within" /\ st[p].ret = "top") =>
              /\ HeldColls(p) # {} =>
                    \E h \in lk[p] : h.r = DbRes(st[p].wsrc.db) /\ h.m = "IX" /\ h.scope = "w"
              /\ \A h \in lk[p] : (h.scope = "w" /\ h.r.coll # "") => h.m = "X"
              /\ st[p].pc = "w_c2" =>
                    \A held \in HeldColls(p) :
                       LET next == Want(st[p], cat).r
                       IN  \/ next = held
                           \/ isSystemDotViews(next)
                           \/ ~isSystemDotViews(held) /\ ResourceId(held) < ResourceId(next)

\* a rename from the views catalog holds a.x and waits for the views catalog,
\* which a view operation holds
C22_Witness ==
    \E p, q \in Procs :
        /\ st[p].op.kind = "rollback" /\ st[p].wsrc = SystemViewsNs /\ st[p].pc = "w_c2"
        /\ AX \in HeldColls(p)
        /\ st[q].op.kind = "viewOp" /\ q \in WaitsFor(p)
        /\ ResourceId(SystemViewsNs) < ResourceId(AX)

\* the calls of one committed attempt, in order
SwapOrder == <<"pre", "drop", "rebind", "post", "commit">>

\* C23: inside renameCollectionAndDropTarget the calls of an attempt are made
\* in the order preRenameCollection, drop of the target, rebind of the source,
\* postRenameCollection, commit, all in one write unit: while the unit is
\* open, and after it was left by a failed drop, a failed rebind or a write
\* conflict, the catalog is the one the call started from and no observer
\* event and no drop of the attempt is published; a successful call made
\* exactly the five calls and publishes what the unit did; and
\* postRenameCollection is only ever called after preRenameCollection
C23_SwapDropOneWriteUnit ==
    \A p \in Procs :
        LET s == st[p]
            w == s.wu
            r == renameCollectionAndDropTarget(s.pre, env, w.uuid, w.source, w.target,
                                               w.targetU, w.dropTarget, w.fromApplyOps)
        IN  w.on =>
              /\ w.log = Prefix(SwapOrder, Len(w.log))
              /\ (\E i \in 1..Len(w.log) : w.log[i] = "post")
                     => \E j \in 1..Len(w.log) : w.log[j] = "pre"
              /\ s.pc \in SwapPcs =>
                     /\ cat = s.pre /\ s.ev = <<>> /\ s.drops = <<>>
                     /\ s.pc = "s_pre" => w.log = <<>> /\ w.ev = <<>> /\ w.drops = <<>>
              /\ Ended(p) /\ s.res # "OK" =>
                     /\ cat = s.pre /\ s.ev = <<>> /\ s.drops = <<>>
                     /\ Len(w.log) < Len(SwapOrder)
              /\ Ended(p) /\ s.res # "OperationFailed" =>
                     /\ s.res = r.status /\ cat = r.cat /\ s.ev = r.ev /\ s.drops = r.drops
              /\ Done(p) /\ s.res = "OK" =>
                     /\ w.log = SwapOrder
                     /\ cat = w.cat /\ cat # s.pre
                     /\ s.ev = w.ev /\ s.drops = w.drops

\* a rebind failed after the drop was made in the unit, in an attempt that
\* followed a write conflict, and the dropped target is still there
C23_Witness ==
    \E p \in Procs :
        /\ st[p].wu.on /\ Done(p) /\ st[p].res = "OperationFailed"
        /\ st[p].wu.log = <<"pre", "drop">> /\ st[p].wu.drops # <<>>
        /\ st[p].retries > 0
        /\ cat = st[p].pre /\ cat[AY] = st[p].wu.targetU

\* a same-database renameForApplyOps call returned success after finding at
\* the target namespace a collection other than the source that the entry
\* does not name as the one to drop
MovedAside(p) ==
    /\ Applied(p) /\ Done(p) /\ st[p].res = "OK" /\ st[p].path = "applyWithin"
    /\ st[p].pre[st[p].op.tgt] # NoUUID
    /\ st[p].pre[st[p].op.tgt] # st[p].pre[st[p].src]
    /\ st[p].op.uuidToDrop = NoUUID \/ st[p].op.uuidToDrop # st[p].pre[st[p].op.tgt]

\* the collection found at the target is still live, with its UUID, under a
\* generated tmp<hex>.rename name of the database, and no event of the call
\* mentions that name or that collection
KeptAside(p) ==
    LET targetU == st[p].pre[st[p].op.tgt]
        tmpName == getNamespaceFromUUID(cat, targetU)
    IN  /\ tmpName \in TmpNs /\ tmpName.coll = "tmp.rename" /\ tmpName.db = st[p].op.tgt.db
        /\ st[p].pre[tmpName] = NoUUID
        /\ \A i \in 1..Len(st[p].ev) :
               /\ st[p].ev[i].source = st[p].src /\ st[p].ev[i].target = st[p].op.tgt
               /\ st[p].ev[i].uuid # targetU /\ st[p].ev[i].dropped # targetU
        /\ \A i \in 1..Len(st[p].drops) : st[p].drops[i].uuid # targetU

\* C24 as stated: after such a call the collection is kept aside and the
\* target namespace resolves to the source's UUID
C24_MoveAsideKeepsTarget_AsStated ==
    \A p \in Procs :
        MovedAside(p) => KeptAside(p) /\ cat[st[p].op.tgt] = st[p].pre[st[p].src]

\* C24: after such a call the collection found at the target is kept aside
\* under a tmp<hex>.rename name with its UUID and without an observer event
\* of its own; the target namespace resolves to the source's UUID unless the
\* UUID to drop is the source's own, in which case the source stays where it
\* was and the target namespace is left empty
C24_MoveAsideKeepsTarget ==
    \A p \in Procs :
        MovedAside(p) =>
            /\ KeptAside(p)
            /\ IF st[p].op.uuidToDrop # st[p].pre[st[p].src]
               THEN cat[st[p].op.tgt] = st[p].pre[st[p].src]
               ELSE /\ cat[st[p].op.tgt] = NoUUID
                    /\ cat[st[p].src] = st[p].pre[st[p].src]
                    /\ st[p].ev = <<>> /\ st[p].drops = <<>>

\* the target was moved aside while a third collection, named by the UUID to
\* drop, was dropped and the source renamed
C24_Witness ==
    \E p \in Procs :
        /\ MovedAside(p)
        /\ st[p].op.uuidToDrop = st[p].pre[ProfileNs] /\ st[p].pre[ProfileNs] # NoUUID
        /\ cat[ProfileNs] = NoUUID
        /\ cat[AY] = st[p].pre[AX]

\* what one step may do to the staging collection of thread p
IndexesThenRecords(p) ==
    LET u == st[p].tmpU
    IN  (st[p].path = "between" /\ HasUUID(cat, u) /\ HasUUID(cat', u)) =>
            /\ idx'[u] # idx[u] =>
                   /\ st[p].pc = "b_index"
                   /\ docs[u] = <<>> /\ docs'[u] = <<>>
            /\ docs'[u] # docs[u] =>
                   /\ idx'[u] = idx[u]
                   /\ idx[u] = st[p].srcIdx

\* C25: in a cross-database rename the indexes of the staging collection
\* are created, in one committed step, while the collection is empty, and
\* every step that inserts a record finds all of them in place and creates
\* none: no index is created after a record was inserted
C25_IndexesBeforeRecords == [][\A p \in Procs : IndexesThenRecords(p)]_vars

\* the staging collection has two indexes and a copied record, and the copy
\* loop is still running
C25_Witness ==
    \E p \in Procs :
        /\ st[p].path = "between" /\ st[p].pc = "b_copy"
        /\ HasUUID(cat, st[p].tmpU)
        /\ idx[st[p].tmpU] = BetweenIdx
        /\ docs[st[p].tmpU] # <<>>

\* ------------------------------------------------- temporary namespaces
\* the step binds a collection to the generated namespace ns
Generated(ns) == cat[ns] = NoUUID /\ cat'[ns] # NoUUID

\* C26: a step that binds a collection to a generated tmp<hex>.rename or
\* tmp<hex>.renameCollection namespace is a step of a thread that holds the
\* namespace's database in exclusive mode, and a thread about to generate
\* such a name (renameBetweenDBs at the staging collection, the apply-ops
\* rename once its database lock is taken) holds that lock, so neither
\* assertion fails, whichever entry point was called
C26_TmpNameUnderExclusiveLock ==
    [][/\ \A ns \in TmpNs :
              Generated(ns) =>
                  \E p \in Procs :
                      /\ st[p].pc \in {"b_setup", "a_run"}
                      /\ st'[p].pc # "aborted"
                      /\ isDbLockedForMode(lk, p, ns.db, "X")
       /\ \A p \in Procs :
              /\ st[p].pc = "b_setup" => isDbLockedForMode(lk, p, st[p].op.tgt.db, "X")
              /\ st[p].pc = "a_run" => isDbLockedForMode(lk, p, st[p].src.db, "X")]_vars

\* a staging collection and a moved-aside target both exist: the first call
\* moved the collection at a.y aside, the second one is copying a.y to b
C26_Witness ==
    \E p \in Procs, m, n \in TmpNs :
        /\ m.coll = "tmp.rename" /\ cat[m] # NoUUID
        /\ n.coll = "tmp.renameCollection" /\ cat[n] # NoUUID
        /\ st[p].pc = "b_index" /\ st[p].tmp = n
        /\ isDbLockedForMode(lk, p, n.db, "X")

\* ---------------------------------------------- the optime of the drop
\* the write unit made the call `name`
Called(w, name) == \E i \in 1..Len(w.log) : w.log[i] = name

\* C27: when renameCollectionAndDropTarget is given a renameOpTime the
\* target is dropped with that optime, and otherwise with the one
\* preRenameCollection returned; if it is given one and preRenameCollection
\* returns one too, the process aborts right after preRenameCollection,
\* before the drop and with nothing changed; and a call that comes through
\* an entry point never fails the assertions at its head: when the oplog is
\* not disabled for the target, writes are replicated and no renameOpTime
\* was given
C27_DropAtGivenOpTime ==
    \A p \in Procs :
        LET s == st[p]
            w == s.wu
            observed == ObserverOpTime(env, w.source)
        IN  w.on =>
              /\ \A i \in 1..Len(w.drops) :
                     /\ w.fromApplyOps # 0 => w.drops[i].opTime = w.fromApplyOps
                     /\ w.fromApplyOps = 0 => w.drops[i].opTime = observed
                     /\ w.drops[i].uuid = w.targetU
              /\ Done(p) /\ s.res = "OK" => s.drops = w.drops /\ Len(s.drops) = 1
              /\ (w.fromApplyOps # 0 /\ observed # 0 /\ Called(w, "pre")) =>
                     /\ s.pc = "aborted"
                     /\ w.log = <<"pre">> /\ w.drops = <<>> /\ s.drops = <<>>
                     /\ cat = s.pre
              /\ s.op.kind # "swap" =>
                     /\ ~isOplogDisabledFor(env, w.target) =>
                            env.replicated /\ w.fromApplyOps = 0
                     /\ w.dropTarget
                     /\ s.pc # "aborted"

\* a log entry with an optime was applied on a node that does not log its
\* writes, and the collection at the target was dropped with that optime
C27_Witness ==
    \E p \in Procs :
        /\ st[p].wu.on /\ Done(p) /\ st[p].res = "OK"
        /\ st[p].op.kind = "applyOps" /\ st[p].op.opTime # 0
        /\ st[p].drops = <<Drop(st[p].pre[AY], AY, st[p].op.opTime)>>
        /\ cat[AY] = st[p].pre[AX]

\* ------------------------------------------------- the source during the copy
\* renameBetweenDBs between taking its source locks and the end of the copy loop
SourceLockedPcs == {"b_tdb", "b_setup", "b_index", "b_tmpdb", "b_tmpcoll", "b_cursor",
                    "b_copy", "b_batch"}

\* C28: from the time renameBetweenDBs has its source locks, before the first
\* record is read, until the copy loop has ended, through every batch, retried
\* or committed, the thread holds the source database in intent-exclusive
\* and the source collection in shared mode; no other client can take the
\* locks a writer of the source needs, and the source is the collection the
\* cursor was opened on, with the records it had then
C28_SourceSharedDuringCopy ==
    \A p \in Procs :
        LET s == st[p]
        IN  (s.path = "between" /\ s.pc \in SourceLockedPcs) =>
                /\ isDbLockedForMode(lk, p, s.src.db, "IX")
                /\ isCollectionLockedForMode(lk, p, s.src, "S")
                /\ ~(OtherCanLock(DbRes(s.src.db), "IX") /\ OtherCanLock(s.src, "IX"))
                /\ s.pc \in {"b_index", "b_tmpdb", "b_tmpcoll", "b_cursor", "b_copy", "b_batch"} =>
                       cat[s.src] = s.srcU
                /\ s.pc \in {"b_copy", "b_batch"} => docs[s.srcU] = s.srcDocs

\* a batch was retried after a write conflict and committed, other clients
\* still have operations to run, and the source is as it was
C28_Witness ==
    \E p \in Procs :
        /\ st[p].path = "between" /\ st[p].pc = "b_copy" /\ st[p].retries > 0
        /\ docs[st[p].tmpU] # <<>>
        /\ envLeft > 0
        /\ isCollectionLockedForMode(lk, p, st[p].src, "S")
        /\ docs[st[p].srcU] = st[p].srcDocs /\ st[p].srcDocs # <<>>

\* ------------------------------------------------ what an entry may drop
\* the collections of the catalog c that are not in the catalog d
Gone(c, d) == {u \in UUIDs : HasUUID(c, u) /\ ~HasUUID(d, u)}

\* C29: whatever dropTarget, the UUID to drop and the target namespace of a
\* same-database renameForApplyOps call are, the call drops no collection
\* but the one with the UUID to drop, and none when the entry has no such
\* UUID, also when dropTarget is set and another collection is at the target
C29_OnlyUuidToDropIsDropped ==
    \A p \in Procs :
        (st[p].op.kind = "applyOps" /\ st[p].path = "applyWithin") =>
            /\ \A i \in 1..Len(st[p].drops) :
                   /\ st[p].drops[i].uuid = st[p].op.uuidToDrop
                   /\ st[p].drops[i].uuid # NoUUID
            /\ Gone(st[p].pre, cat) \subseteq {st[p].op.uuidToDrop} \ {NoUUID}
            /\ Ended(p) => Gone(st[p].pre, st[p].post) = {st[p].drops[i].uuid :
                                                             i \in 1..Len(st[p].drops)}

\* dropTarget was set, no UUID to drop was given and another collection was
\* at the target: the call succeeded and every collection is still there
C29_Witness ==
    \E p \in Procs :
        /\ Done(p) /\ st[p].op.kind = "applyOps" /\ st[p].path = "applyWithin"
        /\ st[p].res = "OK"
        /\ st[p].op.dropTarget /\ st[p].op.uuidToDrop = NoUUID
        /\ st[p].pre[AY] \notin {NoUUID, st[p].pre[st[p].src]}
        /\ cat[AY] = st[p].pre[AX]
        /\ Gone(st[p].pre, cat) = {} /\ st[p].drops = <<>>

\* ------------------------------------------------- the drop of the source
\* a step of the renaming threads, not of another client
OwnStep == envLeft' = envLeft

\* C30: a cross-database rename removes or changes its source collection in
\* one step only, the drop that follows a promotion that returned success
\* (the staging collection was renamed to the target, which the observer
\* was told, and the cleanup guard is dismissed), and that step makes the
\* call return success; every other
\* step of the call, and so every failed copy, index creation or promotion,
\* leaves the source namespace, its UUID and its records as they are
C30_SourceDroppedAfterPromotion ==
    [][\A p \in Procs :
          LET s == st[p]
              u == cat[s.src]
          IN  (OwnStep /\ s.path = "between" /\ u # NoUUID
                 /\ (cat'[s.src] # u \/ docs'[u] # docs[u])) =>
                  /\ s.pc = "d_run" /\ s.dret = "final" /\ s.dns = s.src
                  /\ s.ret = "promote" /\ ~s.guard
                  /\ s.ev # <<>> /\ s.ev[Len(s.ev)].source = s.tmp
                  /\ s.ev[Len(s.ev)].target = s.op.tgt /\ s.ev[Len(s.ev)].uuid = s.tmpU
                  /\ cat'[s.src] = NoUUID
                  /\ st'[p].pc = "done" /\ st'[p].res = "OK"]_vars

\* another client removed the staging collection after the copy had ended
\* and the locks were given up; the promotion failed and the source is there
\* with its UUID and records
C30_Witness ==
    \E p \in Procs :
        /\ Done(p) /\ st[p].path = "between" /\ st[p].ret = "promote"
        /\ st[p].res = "NamespaceNotFound"
        /\ st[p].tmpU # NoUUID /\ ~HasUUID(cat, st[p].tmpU)
        /\ cat[st[p].src] = st[p].srcU
        /\ docs[st[p].srcU] = st[p].srcDocs /\ st[p].srcDocs # <<>>

\* ------------------------------------------- writes to the source at the end
\* every record of d is a record of e, as often
Within(d, e) ==
    \A v \in DocVals :
        Cardinality({i \in 1..Len(d) : d[i] = v}) <= Cardinality({i \in 1..Len(e) : e[i] = v})

\* the step is the drop of the source that ends thread p's cross-database
\* rename, with the promoted collection at the target
FinalDrop(p) ==
    /\ OwnStep /\ st[p].path = "between"
    /\ st[p].pc = "d_run" /\ st[p].dret = "final"
    /\ cat[st[p].src] # NoUUID /\ cat'[st[p].src] = NoUUID
    /\ cat[st[p].op.tgt] = st[p].tmpU

\* C31: when a cross-database rename drops its source, every record that is
\* in the source is in the target collection
C31_NoSourceWriteLost ==
    [][\A p \in Procs :
          FinalDrop(p) => Within(docs[cat[st[p].src]], docs[st[p].tmpU])]_vars

\* --------------------------------------------------- the catalog as a whole
\* no two namespaces of the catalog c name the same collection
OneToOne(c) ==
    \A m, n \in DOMAIN c : (m # n /\ c[m] # NoUUID) => c[m] # c[n]

Copying(p) == st[p].pc \in {"b_copy", "b_batch"}

\* a run of the batch's write unit: committed, it leaves the cursor at the
\* end or past the batch's first record and the staging collection longer;
\* conflicted, it leaves the staging collection as it was and the next run
\* starts at the same first record
BatchProgress(p) ==
    (st[p].pc = "b_batch" /\ st'[p] # st[p]) =>
        /\ st'[p].begin = st[p].begin /\ st[p].begin >= 1
        /\ scen.batch >= 1
        /\ IF st'[p].pc = "b_copy"
           THEN /\ st'[p].cur = 0 \/ st'[p].cur > st[p].begin
                /\ Len(docs'[st[p].tmpU]) > Len(docs[st[p].tmpU])
                /\ st'[p].retries = st[p].retries
           ELSE /\ st'[p].pc = "b_batch"
                /\ st'[p].retries = st[p].retries + 1
                /\ docs' = docs
                /\ BatchStart(st'[p].cur, st'[p].begin) = st[p].begin

\* C33: every committed batch leaves the cursor past the record that began
\* the batch, a conflicted batch starts again at that record, and, the
\* thread being scheduled and the write conflicts being finitely many, a
\* thread in the copy loop eventually leaves it
C33_CopyLoopTerminates ==
    /\ [][\A p \in Procs : BatchProgress(p)]_vars
    /\ \A p \in Procs : Copying(p) ~> ~Copying(p)

\* the loop was left at the end of a source of MaxDocs records copied one
\* record a batch, after a batch had been retried
C33_Witness ==
    \E p \in Procs :
        /\ st[p].pc = "w_db" /\ st[p].ret = "promote"
        /\ scen.batch = 1 /\ st[p].retries > 0
        /\ Len(st[p].srcDocs) = MaxDocs
        /\ Len(docs[st[p].tmpU]) = MaxDocs

====
